---- MODULE Spec2Model ----
(***************************************************************************)
(* Model of the spreadsheet reconciliation engine of QuickSlab             *)
(* (services/googleSheetsService.js): schema inference (getHeaderMap),     *)
(* row reconciliation and the bounded write of addCardData, as one atomic  *)
(* call (Spec), request by request with failing requests (SpecSteps) and   *)
(* with interleaved callers (SpecRace), header inference alone             *)
(* (SpecHeader) and the history ledger saveScanHistory (SpecHistory).      *)
(*                                                                         *)
(* A cell text is a sequence of one-character strings, so that trim and    *)
(* lower-casing are computed and not assumed.  The sheet is the grid of    *)
(* the configured tab: a sequence of rows, each NumCols cells wide; rows   *)
(* past the end of the sequence are blank.  The spreadsheet stores the     *)
(* text it is sent unchanged (the keys and names used here are texts the   *)
(* spreadsheet does not reinterpret).                                      *)
(***************************************************************************)
EXTENDS Integers, Sequences, FiniteSets, TLC

\* ---------------------------------------------------------------- bounds
\* Largest number of data rows in an initial sheet.
MaxInitRows == 3
\* Number of addCardData calls explored from each initial sheet.
MaxCalls == 2

\* Header inference is explored on grids of up to MaxPad leading rows
\* (blank, or a title) followed by up to MaxHeaderRows candidate rows.
MaxPad == 10
MaxHeaderRows == 2

\* Number of callers that may have a call in flight at the same time.
NumCallers == 2

\* Largest number of entries in an initial history log, and largest limit
\* passed to loadScanHistory.
MaxEntries == 5
MaxLimit == 3
\* Elements of a batch lookup request.
MaxKeys == 3
\* Calls of initialize() and updateConfig() in a run.
MaxChanges == 3
\* Column indices 0..MaxColumnIndex, and as many again from the last
\* two-letter names on, are converted to letters.
MaxColumnIndex == 30

\* Width of the modelled grid (the legacy layout A:G needs 7 columns).
NumCols == 7

\* --------------------------------------------------- program constants
\* getHeaderMap reads A1:ZZ10.
HeaderWindow == 10

\* ------------------------------------------------------------- strings
Empty == <<>>

UpperChars == <<"A","B","C","D","E","F","G","H","I","J","K","L","M",
                "N","O","P","Q","R","S","T","U","V","W","X","Y","Z">>
LowerChars == <<"a","b","c","d","e","f","g","h","i","j","k","l","m",
                "n","o","p","q","r","s","t","u","v","w","x","y","z">>

\* String.prototype.toLowerCase, one character.
UpperSet == {UpperChars[i] : i \in 1..26}
LowerOf == [c \in UpperSet |-> LowerChars[CHOOSE i \in 1..26 : UpperChars[i] = c]]

LowerChar(c) == IF c \in UpperSet THEN LowerOf[c] ELSE c

ToLowerCase(s) == [i \in 1..Len(s) |-> LowerChar(s[i])]

\* String.prototype.trim: strips the blanks at both ends.
RECURSIVE TrimStart(_)
TrimStart(s) ==
  IF Len(s) > 0 /\ s[1] = " " THEN TrimStart(Tail(s)) ELSE s

RECURSIVE TrimEnd(_)
TrimEnd(s) ==
  IF Len(s) > 0 /\ s[Len(s)] = " " THEN TrimEnd(SubSeq(s, 1, Len(s) - 1)) ELSE s

Trim(s) == TrimEnd(TrimStart(s))

\* const norm = (s) => (s || '').toString().trim().toLowerCase();
Norm(s) == ToLowerCase(Trim(s))

\* ------------------------------------------------ header synonym table
Canonicals == <<"cardName", "cardNumber", "condition", "gradedFlag",
                "company", "grade", "certNumber">>

CandidateNames(c) ==
  CASE c = "cardName" ->
         { <<"c","a","r","d"," ","n","a","m","e">>,
           <<"n","a","m","e">>,
           <<"s","u","b","j","e","c","t">>,
           <<"t","i","t","l","e">> }
    [] c = "cardNumber" ->
         { <<"c","a","r","d"," ","#">>,
           <<"c","a","r","d"," ","n","u","m","b","e","r">>,
           <<"n","u","m","b","e","r">>,
           <<"n","o">>,
           <<"#">> }
    [] c = "condition" ->
         { <<"c","o","n","d","i","t","i","o","n">>,
           <<"s","t","a","t","u","s">>,
           <<"g","r","a","d","e","d"," ","s","t","a","t","u","s">> }
    [] c = "gradedFlag" ->
         { <<"g","r","a","d","e","d","?">>,
           <<"a","u","t","h","e","n","t","i","c","a","t","e","d">>,
           <<"g","r","a","d","e","d">> }
    [] c = "company" ->
         { <<"c","o","m","p","a","n","y">>,
           <<"g","r","a","d","i","n","g"," ","c","o","m","p","a","n","y">>,
           <<"g","r","a","d","e","r">> }
    [] c = "grade" ->
         { <<"g","r","a","d","e">>,
           <<"n","u","m","e","r","i","c"," ","g","r","a","d","e">>,
           <<"g","r","a","d","e"," ","(","n","u","m",")">> }
    [] c = "certNumber" ->
         { <<"c","e","r","t">>,
           <<"c","e","r","t"," ","#">>,
           <<"c","e","r","t"," ","n","u","m","b","e","r">>,
           <<"c","e","r","t","i","f","i","c","a","t","i","o","n"," ",
             "n","u","m","b","e","r">> }

\* The candidates table of getHeaderMap: canonical field -> header names.
Candidates == [k \in 1..Len(Canonicals) |-> CandidateNames(Canonicals[k])]

Names(c) == Candidates[CHOOSE k \in 1..Len(Canonicals) : Canonicals[k] = c]

\* candidates.some(c => c.names.some(n => hNorm === n))
MatchesAny(cell) ==
  LET hNorm == Norm(cell)
  IN  \E k \in 1..Len(Canonicals) : hNorm \in Candidates[k]

\* ------------------------------------------------ spreadsheet service
\* The blank row of the grid.
BlankRow == [c \in 1..NumCols |-> Empty]

\* Row r of the grid (1-based); rows past the end are blank.
RowAt(grid, r) == IF r \in 1..Len(grid) THEN grid[r] ELSE BlankRow

\* Last index of cells that holds a value, 0 when none does.
LastFilled(cells) ==
  IF \E i \in 1..Len(cells) : cells[i] # Empty
    THEN CHOOSE i \in 1..Len(cells) :
           cells[i] # Empty /\ \A j \in (i+1)..Len(cells) : cells[j] = Empty
    ELSE 0

\* Last row among rows 1..hi of the grid with a value in columns c1..c2
\* (1-based), 0 when none.
LastRowIn(grid, hi, c1, c2) ==
  IF \E r \in 1..hi : \E c \in c1..c2 : grid[r][c] # Empty
    THEN CHOOSE r \in 1..hi :
           /\ \E c \in c1..c2 : grid[r][c] # Empty
           /\ \A q \in (r+1)..hi : \A c \in c1..c2 : grid[q][c] = Empty
    ELSE 0

\* spreadsheets.values.get on rows r1..r2 (r2 = 0: open ended), columns
\* c1..c2 (1-based): the rows up to the last one with a value in the range,
\* each without its trailing blank cells.
ValuesGet(grid, r1, r2, c1, c2) ==
  LET hi      == IF r2 = 0 \/ Len(grid) < r2 THEN Len(grid) ELSE r2
      endRow  == LastRowIn(grid, hi, c1, c2)
      slice(r) == SubSeq(grid[r], c1, c2)
  IN  IF endRow < r1 THEN <<>>
      ELSE [i \in 1..(endRow - r1 + 1) |->
              SubSeq(slice(r1 + i - 1), 1, LastFilled(slice(r1 + i - 1)))]

\* spreadsheets.values.get of `Tab!A1:ZZ10`.
ReadHeaderWindow(grid) == ValuesGet(grid, 1, HeaderWindow, 1, NumCols)

\* A1 notation, as the spreadsheet parses a column name (1-based column).
RECURSIVE LetterToColumn(_, _)
LetterToColumn(letters, acc) ==
  IF letters = <<>> THEN acc
  ELSE LetterToColumn(Tail(letters),
         acc * 26 + (CHOOSE i \in 1..26 : UpperChars[i] = Head(letters)))

\* spreadsheets.values.update of one row of values on
\* `Tab!<startLetter><row>:<endLetter><row>`; a sent '' blanks the cell.
ValuesUpdate(grid, startLetter, endLetter, row, values) ==
  LET c1   == LetterToColumn(startLetter, 0)
      c2   == LetterToColumn(endLetter, 0)
      rows == IF row > Len(grid) THEN row ELSE Len(grid)
  IN  [r \in 1..rows |->
        IF r = row
          THEN [c \in 1..NumCols |->
                 IF c \in c1..c2 /\ (c - c1 + 1) \in 1..Len(values)
                   THEN values[c - c1 + 1]
                   ELSE RowAt(grid, r)[c]]
          ELSE RowAt(grid, r)]

\* --------------------------------------------------------- getHeaderMap
NullHeaderMap ==
  [isNull |-> TRUE, headers |-> <<>>, indexByCanonical |-> <<>>, headerRow |-> 0]

\* let score = 0; for (const cell of row) if (matches) score++;
Score(row) == Cardinality({i \in 1..Len(row) : MatchesAny(row[i])})

\* BestRow with >= for >: among equal scores the last row wins.
RECURSIVE BestRowLastTie(_, _, _)
BestRowLastTie(rows, i, best) ==
  IF i > Len(rows) THEN best
  ELSE LET score == Score(rows[i])
       IN  BestRowLastTie(rows, i + 1,
             IF score >= best.score
               THEN [idx |-> i - 1, score |-> score, headers |-> rows[i]]
               ELSE best)

\* rows.forEach((row, rIdx) => { if (score > best.score) best = ... })
RECURSIVE BestRow(_, _, _)
BestRow(rows, i, best) ==
  IF i > Len(rows) THEN best
  ELSE LET score == Score(rows[i])
       IN  BestRow(rows, i + 1,
             IF score > best.score
               THEN [idx |-> i - 1, score |-> score, headers |-> rows[i]]
               ELSE best)

\* IndexByCanonical without the `in` test: a later column of the same
\* family replaces the earlier one.
RECURSIVE IndexByCanonicalLastWins(_, _, _)
IndexByCanonicalLastWins(headers, i, map) ==
  IF i > Len(headers) THEN map
  ELSE LET hNorm == Norm(headers[i])
           new == {k \in 1..Len(Canonicals) : hNorm \in Candidates[k]}
           dom == DOMAIN map \cup {Canonicals[k] : k \in new}
       IN  IndexByCanonicalLastWins(headers, i + 1,
             [c \in dom |->
                IF \E k \in new : Canonicals[k] = c THEN i - 1 ELSE map[c]])

\* IndexByCanonical storing the one-based position of the column.
RECURSIVE IndexByCanonicalOneBased(_, _, _)
IndexByCanonicalOneBased(headers, i, map) ==
  IF i > Len(headers) THEN map
  ELSE LET hNorm == Norm(headers[i])
           new == {k \in 1..Len(Canonicals) :
                     /\ hNorm \in Candidates[k]
                     /\ Canonicals[k] \notin DOMAIN map}
           dom == DOMAIN map \cup {Canonicals[k] : k \in new}
       IN  IndexByCanonicalOneBased(headers, i + 1,
             [c \in dom |-> IF c \in DOMAIN map THEN map[c] ELSE i])

\* headers.forEach((h, idx) => { for (const c of candidates) ... })
RECURSIVE IndexByCanonical(_, _, _)
IndexByCanonical(headers, i, map) ==
  IF i > Len(headers) THEN map
  ELSE LET hNorm == Norm(headers[i])
           new == {k \in 1..Len(Canonicals) :
                     /\ hNorm \in Candidates[k]
                     /\ Canonicals[k] \notin DOMAIN map}
           dom == DOMAIN map \cup {Canonicals[k] : k \in new}
       IN  IndexByCanonical(headers, i + 1,
             [c \in dom |-> IF c \in DOMAIN map THEN map[c] ELSE i - 1])

GetHeaderMap(grid) ==
  LET rows == ReadHeaderWindow(grid)
      best == BestRow(rows, 1, [idx |-> -1, score |-> -1, headers |-> <<>>])
  IN  IF Len(rows) = 0 THEN NullHeaderMap
      ELSE IF Len(best.headers) = 0 THEN NullHeaderMap
      ELSE [isNull |-> FALSE,
            headers |-> best.headers,
            indexByCanonical |-> IndexByCanonical(best.headers, 1, <<>>),
            headerRow |-> best.idx + 1]

\* GetHeaderMapResult without the catch turning a failed read into null.
GetHeaderMapResultIgnoreFailure(grid, readOk) == GetHeaderMap(grid)

\* getHeaderMap with its try/catch: a failed read of the window yields null.
GetHeaderMapResult(grid, readOk) ==
  IF readOk THEN GetHeaderMap(grid) ELSE NullHeaderMap

\* -------------------------------------------------- columnIndexToLetter
RECURSIVE LetterLoop(_, _)
LetterLoop(n, result) ==
  IF n > 0
    THEN LetterLoop((n - 1) \div 26, <<UpperChars[((n - 1) % 26) + 1]>> \o result)
    ELSE result

\* columnIndexToLetter as ordinary base 26 with A as the digit zero.
RECURSIVE PositionalLoop(_, _)
PositionalLoop(n, result) ==
  IF n >= 26
    THEN PositionalLoop(n \div 26, <<UpperChars[(n % 26) + 1]>> \o result)
    ELSE <<UpperChars[n + 1]>> \o result

ColumnIndexToLetterPositional(index) == PositionalLoop(index, <<>>)

ColumnIndexToLetter(index) == LetterLoop(index + 1, <<>>)

\* ----------------------------------------------------------- addCardData
\* JavaScript `v || d` on strings.
OrElse(v, d) == IF v = Empty THEN d ELSE v

Graded == <<"G","r","a","d","e","d">>
PSA    == <<"P","S","A">>

\* const fieldToValue = { cardName: sheetsData.Subject || '', ... }
FieldToValue(sheetsData) ==
  [cardName   |-> OrElse(sheetsData.Subject, Empty),
   cardNumber |-> OrElse(sheetsData.CardNumber, Empty),
   condition  |-> OrElse(sheetsData.Status, Graded),
   gradedFlag |-> OrElse(sheetsData.Authenticated, <<"Y">>),
   company    |-> OrElse(sheetsData.Company, PSA),
   grade      |-> OrElse(sheetsData.Grade, Empty),
   certNumber |-> OrElse(sheetsData.CertNumber, Empty)]

\* let valuesRow: the row aligned to the inferred headers (setIfPresent on
\* each canonical field), else the legacy 7-column row A:G.  addCardData
\* builds it but sends writeRow.
ValuesRow(headerMap, f) ==
  IF ~headerMap.isNull
    THEN [k \in 1..Len(headerMap.headers) |->
            IF \E c \in DOMAIN headerMap.indexByCanonical :
                 headerMap.indexByCanonical[c] = k - 1
              THEN f[CHOOSE c \in DOMAIN headerMap.indexByCanonical :
                       headerMap.indexByCanonical[c] = k - 1]
              ELSE Empty]
    ELSE <<f.cardName, f.cardNumber, f.condition, f.gradedFlag,
           f.company, f.grade, f.certNumber>>

\* headerMap?.indexByCanonical?.<field> ?? dflt
IndexOr(headerMap, field, dflt) ==
  IF ~headerMap.isNull /\ field \in DOMAIN headerMap.indexByCanonical
    THEN headerMap.indexByCanonical[field]
    ELSE dflt

Min2(a, b) == IF a < b THEN a ELSE b
Max2(a, b) == IF a > b THEN a ELSE b
MinOf(S) == CHOOSE x \in S : \A y \in S : x <= y
MaxOf(S) == CHOOSE x \in S : \A y \in S : x >= y

\* (relRow[k] || '') on a row of the scan, k zero-based.
CellAt(relRow, k) == IF (k + 1) \in 1..Len(relRow) THEN relRow[k + 1] ELSE Empty

\* ScanStep without the identity test: a row with an identity but no key
\* counts as free.
ScanStepIgnoreName(nameCell, certCell, certToAdd) ==
  IF certCell # Empty
    THEN IF certToAdd # Empty /\ certCell = certToAdd THEN "match" ELSE "skip"
  ELSE "empty"

\* ScanStep comparing the key before testing the key cell for emptiness.
ScanStepMatchFirst(nameCell, certCell, certToAdd) ==
  IF certCell = certToAdd THEN "match"
  ELSE IF certCell # Empty THEN "skip"
  ELSE IF nameCell # Empty THEN "skip"
  ELSE "empty"

\* The body of the scan loop on one row: "match" (the row holds the key:
\* target, break), "skip" (occupied: continue) or "empty" (both cells
\* empty: insert candidate).
ScanStep(nameCell, certCell, certToAdd) ==
  IF certCell # Empty
    THEN IF certToAdd # Empty /\ certCell = certToAdd THEN "match" ELSE "skip"
  ELSE IF nameCell # Empty THEN "skip"
  ELSE "empty"

\* RememberEmpty without the null test: the last free row is kept.
RememberEmptyLast(firstEmptyRow, row) == row

\* if (!firstEmptyRow) firstEmptyRow = firstDataRow + i;   (0 stands for null)
RememberEmpty(firstEmptyRow, row) ==
  IF firstEmptyRow = 0 THEN row ELSE firstEmptyRow

\* ScanLoop without the break: the scan goes on after a match, so the
\* lowest matching row is kept.
RECURSIVE ScanLoopNoBreak(_, _, _, _, _, _, _)
ScanLoopNoBreak(rows, i, firstEmptyRow, firstDataRow, nameOff, certOff, certToAdd) ==
  IF i >= Len(rows)
    THEN [targetRow |-> 0, firstEmptyRow |-> firstEmptyRow]
  ELSE
    LET relRow   == rows[i + 1]
        nameCell == Trim(CellAt(relRow, nameOff))
        certCell == Trim(CellAt(relRow, certOff))
        step     == IF certCell # Empty
                      THEN IF certToAdd # Empty /\ certCell = certToAdd
                             THEN "match" ELSE "skip"
                    ELSE IF nameCell # Empty THEN "skip"
                    ELSE "empty"
        rest     == ScanLoopNoBreak(rows, i + 1,
                      IF step = "empty" /\ firstEmptyRow = 0
                        THEN firstDataRow + i ELSE firstEmptyRow,
                      firstDataRow, nameOff, certOff, certToAdd)
    IN  IF step = "match" /\ rest.targetRow = 0
          THEN [targetRow |-> firstDataRow + i, firstEmptyRow |-> rest.firstEmptyRow]
          ELSE rest

\* The for loop over the scanned rows: i is zero-based.  Yields the matched
\* row (0 for null) and the remembered insert slot (0 for null).
RECURSIVE ScanLoop(_, _, _, _, _, _, _)
ScanLoop(rows, i, firstEmptyRow, firstDataRow, nameOff, certOff, certToAdd) ==
  IF i >= Len(rows)
    THEN [targetRow |-> 0, firstEmptyRow |-> firstEmptyRow]
  ELSE
    LET relRow   == rows[i + 1]
        nameCell == Trim(CellAt(relRow, nameOff))
        certCell == Trim(CellAt(relRow, certOff))
        step     == ScanStep(nameCell, certCell, certToAdd)
    IN  IF step = "match"
          THEN [targetRow |-> firstDataRow + i, firstEmptyRow |-> firstEmptyRow]
          ELSE ScanLoop(rows, i + 1,
                        IF step = "empty"
                          THEN RememberEmpty(firstEmptyRow, firstDataRow + i)
                          ELSE firstEmptyRow,
                        firstDataRow, nameOff, certOff, certToAdd)

\* ResolveTarget preferring the remembered free row to the matched row.
ResolveTargetFreeFirst(targetRow, firstEmptyRow, firstDataRow, nRows) ==
  IF firstEmptyRow # 0 THEN firstEmptyRow
  ELSE IF targetRow # 0 THEN targetRow
  ELSE firstDataRow + nRows

\* ResolveTarget appending at header row + rows.length, one row too high.
ResolveTargetFromHeaderRow(targetRow, firstEmptyRow, firstDataRow, nRows) ==
  IF targetRow # 0 THEN targetRow
  ELSE IF firstEmptyRow # 0 THEN firstEmptyRow
  ELSE (firstDataRow - 1) + nRows

\* ResolveTarget ignoring the matched row: every write goes to a free row.
ResolveTargetNeverUpdate(targetRow, firstEmptyRow, firstDataRow, nRows) ==
  IF firstEmptyRow # 0 THEN firstEmptyRow
  ELSE firstDataRow + nRows

\* if (!targetRow) targetRow = firstEmptyRow || (firstDataRow + rows.length);
ResolveTarget(targetRow, firstEmptyRow, firstDataRow, nRows) ==
  IF targetRow # 0 THEN targetRow
  ELSE IF firstEmptyRow # 0 THEN firstEmptyRow
  ELSE firstDataRow + nRows

\* Math.min / Math.max over the five owned column indices.
WriteStartIdx(idxCardName, idxCardNumber, idxCompany, idxGrade, idxCert) ==
  MinOf({idxCardName, idxCardNumber, idxCompany, idxGrade, idxCert})

\* WriteEndIdx taken from the two scan columns only.
WriteEndIdxScanOnly(idxCardName, idxCardNumber, idxCompany, idxGrade, idxCert) ==
  Max2(idxCardName, idxCert)

WriteEndIdx(idxCardName, idxCardNumber, idxCompany, idxGrade, idxCert) ==
  MaxOf({idxCardName, idxCardNumber, idxCompany, idxGrade, idxCert})

\* WriteRow whose cells between the owned columns carry the condition text
\* instead of ''.
WriteRowFillCondition(f, idxCardName, idxCardNumber, idxCompany, idxGrade, idxCert, writeStartIdx, writeEndIdx) ==
  [k \in 1..(writeEndIdx - writeStartIdx + 1) |->
     LET idx == writeStartIdx + k - 1
     IN  IF      idx = idxCert       THEN f.certNumber
         ELSE IF idx = idxGrade      THEN f.grade
         ELSE IF idx = idxCompany    THEN f.company
         ELSE IF idx = idxCardNumber THEN f.cardNumber
         ELSE IF idx = idxCardName   THEN f.cardName
         ELSE f.condition]

\* const writeRow = new Array(n).fill(''); writeRow[idx - start] = value; ...
\* (later assignments win when two fields share a column).
WriteRow(f, idxCardName, idxCardNumber, idxCompany, idxGrade, idxCert, writeStartIdx, writeEndIdx) ==
  [k \in 1..(writeEndIdx - writeStartIdx + 1) |->
     LET idx == writeStartIdx + k - 1
     IN  IF      idx = idxCert       THEN f.certNumber
         ELSE IF idx = idxGrade      THEN f.grade
         ELSE IF idx = idxCompany    THEN f.company
         ELSE IF idx = idxCardNumber THEN f.cardNumber
         ELSE IF idx = idxCardName   THEN f.cardName
         ELSE Empty]

\* UpdateRequest addressing the row above the target.
UpdateRequestRowAbove(targetRow, writeStartIdx, writeEndIdx, writeRow) ==
  [startLetter |-> ColumnIndexToLetter(writeStartIdx),
   endLetter   |-> ColumnIndexToLetter(writeEndIdx),
   row         |-> targetRow - 1,
   values      |-> writeRow]

\* UpdateRequest addressing the row below the target.
UpdateRequestNextRow(targetRow, writeStartIdx, writeEndIdx, writeRow) ==
  [startLetter |-> ColumnIndexToLetter(writeStartIdx),
   endLetter   |-> ColumnIndexToLetter(writeEndIdx),
   row         |-> targetRow + 1,
   values      |-> writeRow]

\* The values.update request: `Tab!<start><targetRow>:<end><targetRow>`
\* with the one row of values.
UpdateRequest(targetRow, writeStartIdx, writeEndIdx, writeRow) ==
  [startLetter |-> ColumnIndexToLetter(writeStartIdx),
   endLetter   |-> ColumnIndexToLetter(writeEndIdx),
   row         |-> targetRow,
   values      |-> writeRow]

\* Everything addCardData computes from the header map it was given and the
\* scan of the grid, up to the values.update request.
PlanFrom(grid, headerMap, sheetsData) ==
  LET f             == FieldToValue(sheetsData)
      idxCardName   == IndexOr(headerMap, "cardName", 0)
      idxCardNumber == IndexOr(headerMap, "cardNumber", 1)
      idxCompany    == IndexOr(headerMap, "company", 2)
      idxGrade      == IndexOr(headerMap, "grade", 3)
      idxCert       == IndexOr(headerMap, "certNumber", 4)
      writeStartIdx == WriteStartIdx(idxCardName, idxCardNumber, idxCompany,
                                     idxGrade, idxCert)
      writeEndIdx   == WriteEndIdx(idxCardName, idxCardNumber, idxCompany,
                                   idxGrade, idxCert)
      firstDataRow  == (IF headerMap.isNull THEN 1 ELSE headerMap.headerRow) + 1
      scanStartIdx  == Min2(idxCardName, idxCert)
      scanEndIdx    == Max2(idxCardName, idxCert)
      rows          == ValuesGet(grid, firstDataRow, 0,
                         LetterToColumn(ColumnIndexToLetter(scanStartIdx), 0),
                         LetterToColumn(ColumnIndexToLetter(scanEndIdx), 0))
      certToAdd     == Trim(f.certNumber)
      scan          == ScanLoop(rows, 0, 0, firstDataRow,
                                idxCardName - scanStartIdx,
                                idxCert - scanStartIdx, certToAdd)
      targetRow     == ResolveTarget(scan.targetRow, scan.firstEmptyRow,
                                     firstDataRow, Len(rows))
      writeRow      == WriteRow(f, idxCardName, idxCardNumber, idxCompany,
                                idxGrade, idxCert, writeStartIdx, writeEndIdx)
  IN  [headerMap     |-> headerMap,
       valuesRow     |-> ValuesRow(headerMap, f),
       idxCardName   |-> idxCardName,
       idxCardNumber |-> idxCardNumber,
       idxCompany    |-> idxCompany,
       idxGrade      |-> idxGrade,
       idxCert       |-> idxCert,
       firstDataRow  |-> firstDataRow,
       scanned       |-> Len(rows),
       certToAdd     |-> certToAdd,
       mode          |-> IF scan.targetRow # 0 THEN "UPDATE" ELSE "INSERT",
       targetRow     |-> targetRow,
       writeRow      |-> writeRow,
       request       |-> UpdateRequest(targetRow, writeStartIdx, writeEndIdx,
                                       writeRow)]

\* addCardData when the header window read and the scan see the same grid.
PlanWrite(grid, sheetsData) == PlanFrom(grid, GetHeaderMap(grid), sheetsData)

\* ApplyFormattingAndValidation copying from the row above the written row
\* whatever that row is.
ApplyFormattingFromRowAbove(headerMap, startRow) ==
  IF headerMap.isNull THEN [templateRow |-> 0, destRow |-> 0]
  ELSE [templateRow |-> startRow - 1, destRow |-> startRow]

\* applyFormattingAndValidation: the one batched copyPaste request sent
\* after the write (templateRow 0: no request is sent).  It copies format
\* and validation rules only, never cell values.
ApplyFormattingAndValidation(headerMap, startRow) ==
  IF headerMap.isNull THEN [templateRow |-> 0, destRow |-> 0]
  ELSE LET firstDataRow == headerMap.headerRow + 1
           templateRow  == Max2(firstDataRow, startRow - 1)
       IN  IF templateRow >= startRow
             THEN [templateRow |-> 0, destRow |-> 0]
             ELSE [templateRow |-> templateRow, destRow |-> startRow]

\* ------------------------------------------------------------ test data
\* Texts used in sheets and records.
Key7     == <<"7">>
Key7Pad  == <<"7"," ">>
Key8     == <<"8">>
Key8Pad  == <<" ","8">>
Blank1   == <<" ">>
NameX    == <<"X">>
NameY    == <<"Y">>
NameZ    == <<"Z">>
Filler   == <<"u">>
TitleTxt == <<"T","i","t","l","e">>
Nine     == <<"9">>
Twelve   == <<"1","2">>

H_CardName  == <<"C","a","r","d"," ","N","a","m","e">>
H_CardNo    == <<"C","a","r","d"," ","#">>
H_Condition == <<"C","o","n","d","i","t","i","o","n">>
H_GradedQ   == <<"G","r","a","d","e","d","?">>
H_Company   == <<"C","o","m","p","a","n","y">>
H_Grade     == <<"G","r","a","d","e">>
H_CertNo    == <<"C","e","r","t"," ","#">>
H_Cert      == <<"C","E","R","T">>
H_Name      == <<" ","N","a","m","e">>
H_Notes     == <<"N","o","t","e","s">>
H_Inventory == <<"I","n","v","e","n","t","o","r","y">>

\* A row of the grid from its leading cells.
PadRow(cells) == [c \in 1..NumCols |-> IF c <= Len(cells) THEN cells[c] ELSE Empty]

\* The rows above the data rows of the initial sheets: the standard
\* 7-column header, the contiguous 5-column header, a title row over a
\* partial header (notes, key, identity), a blank first row (no header) and
\* a title row alone.
Layouts ==
  { << PadRow(<<H_CardName, H_CardNo, H_Condition, H_GradedQ,
                H_Company, H_Grade, H_CertNo>>) >>,
    << PadRow(<<H_CardName, H_CardNo, H_Company, H_Grade, H_CertNo>>) >>,
    << PadRow(<<H_Inventory>>), PadRow(<<H_Notes, H_Cert, H_Name>>) >>,
    << BlankRow >>,
    << PadRow(<<H_Inventory>>) >> }

\* Data rows by role: key cell, identity cell, and the text of every other
\* cell of the row.
RowPatterns ==
  { [key |-> Key7,    name |-> NameX, fill |-> Filler],
    [key |-> Empty,   name |-> Empty, fill |-> Empty],
    [key |-> Key8,    name |-> NameY, fill |-> Filler],
    [key |-> Empty,   name |-> NameX, fill |-> Filler],
    [key |-> Key7Pad, name |-> NameZ, fill |-> Filler],
    [key |-> Blank1,  name |-> Empty, fill |-> Filler] }

MkRow(idxName, idxCert, p) ==
  [c \in 1..NumCols |->
     IF c = idxCert + 1 THEN p.key
     ELSE IF c = idxName + 1 THEN p.name
     ELSE p.fill]

\* The initial sheets: a layout followed by up to MaxInitRows data rows.
InitSheets ==
  UNION { LET hm == GetHeaderMap(layout)
              iN == IndexOr(hm, "cardName", 0)
              iC == IndexOr(hm, "certNumber", 4)
          IN  { layout \o [i \in 1..n |-> MkRow(iN, iC, ps[i])] :
                  ps \in [1..n -> RowPatterns] }
          : layout \in Layouts, n \in 0..MaxInitRows }

\* The GoogleSheetsData of the records written.
MkData(subject, cardNumber, company, grade, cert) ==
  [Subject |-> subject, CardNumber |-> cardNumber, Status |-> Graded,
   Authenticated |-> Empty, Company |-> company, Grade |-> grade,
   CertNumber |-> cert]

Records ==
  { MkData(NameX, Twelve, Empty, Nine, Key7),
    MkData(NameY, Twelve, PSA, Nine, Key8Pad),
    MkData(NameX, Empty, Empty, Nine, Empty),
    MkData(Empty, Empty, Empty, Empty, Blank1),
    MkData(TitleTxt, Twelve, Empty, Nine, Key7) }

\* More header texts.
H_CertNumber == <<"C","e","r","t"," ","N","u","m","b","e","r">>
H_NumGrade   == <<"N","u","m","e","r","i","c"," ","G","r","a","d","e">>
H_Grader     == <<"G","r","a","d","e","r">>
H_Auth       == <<"A","U","T","H","E","N","T","I","C","A","T","E","D">>
H_Status     == <<"S","t","a","t","u","s"," ">>
H_No         == <<"N","o">>
H_Subject    == <<"S","u","b","j","e","c","t">>

\* Candidate rows of the header inference: two headers naming all seven
\* families, partial headers of equal score, a header naming the identity
\* family three times, seven synonym cells that leave the key family out,
\* a data row, a title row and the blank row.
HeaderRowPatterns ==
  { PadRow(<<H_CardName, H_CardNo, H_Condition, H_GradedQ,
             H_Company, H_Grade, H_CertNo>>),
    PadRow(<<H_CertNumber, H_NumGrade, H_Grader, H_Auth,
             H_Status, H_No, H_Subject>>),
    PadRow(<<H_Notes, H_Cert, H_Name>>),
    PadRow(<<H_CertNo, Filler, H_Grade>>),
    PadRow(<<H_Name, TitleTxt, H_Cert, H_CardName>>),
    PadRow(<<H_Name, TitleTxt, H_CardNo, H_Condition,
             H_GradedQ, H_Company, H_Grade>>),
    PadRow(<<NameX, Twelve, PSA, Nine, Key7>>),
    PadRow(<<H_Inventory>>),
    BlankRow }

\* The grids header inference is explored on.
HeaderGrids ==
  { [i \in 1..pad |-> padRow] \o rows :
      pad \in 0..MaxPad,
      padRow \in {BlankRow, PadRow(<<H_Inventory>>)},
      rows \in UNION {[1..n -> HeaderRowPatterns] : n \in 1..MaxHeaderRows} }

\* ---------------------------------------------------------------- state
VARIABLES
  sheet,   \* the grid of the configured tab
  last,    \* the last addCardData call: record, grid before it, its plan
  prev,    \* the call before the last one
  calls,   \* number of calls made
  pc,      \* per caller: position of its call in flight ("idle" when none)
  run,     \* per caller: locals of its call in flight, then its outcome
  ops,     \* per caller: spreadsheet requests its call issued, in order
  tabs,    \* tab metadata of the spreadsheet: title -> numeric sheetId
  cache,   \* this._sheetIdCache: title -> sheetId
  history, \* the rows of the 'Scan History' tab
  svc,     \* the service object: client, credentials, configured target
  world,   \* the spreadsheets other than the configured one
  batch    \* the batch certificate lookup in flight, then its response

vars == <<sheet, last, prev, calls, pc, run, ops, tabs, cache, history, svc, world,
         batch>>

\* The variables of the step-wise calls and of the history ledger.
stepVars == <<pc, run, ops, tabs, cache, history, svc, world, batch>>

NoCall == [op |-> "none"]

\* No batch lookup made yet.
NoBatch == [phase |-> "idle"]

\* The requests of the web server that may await the service concurrently.
Callers == 1..NumCallers

\* this.sheetName = config.sheetName || 'Input Sheet'
SheetName == "Input Sheet"
HistorySheetName == "Scan History"

\* A function with no argument: {} as an object.
EmptyMap == [x \in {} |-> 0]

\* The service after initialize() succeeded on spreadsheet "S1": the client
\* is set (this.sheets, this.auth), credentials are configured, and the
\* metadata probe of initialize() has succeeded under this configuration
\* (probed, a history flag).  Two more history fields: the tab names whose
\* cache entry was stored before the last change of configuration (stale),
\* and the number of initialize() and updateConfig() calls so far (changes).
ReadyService ==
  [sheets |-> TRUE, auth |-> TRUE, credentials |-> TRUE,
   spreadsheetId |-> "S1", sheetName |-> SheetName, probed |-> TRUE,
   stale |-> {}, changes |-> 0]

\* The service right after construction and initialize(): nothing in
\* flight, the cache empty; the spreadsheet has the configured tab only.
StepIdle ==
  /\ pc = [p \in Callers |-> "idle"]
  /\ run = [p \in Callers |-> NoCall]
  /\ ops = [p \in Callers |-> <<>>]
  /\ tabs = [t \in {SheetName} |-> 0]
  /\ cache = EmptyMap
  /\ history = <<>>
  /\ svc = ReadyService
  /\ world = EmptyMap
  /\ batch = NoBatch

Init ==
  /\ sheet \in InitSheets
  /\ last = NoCall
  /\ prev = NoCall
  /\ calls = 0
  /\ StepIdle

\* addCardData(psaData) on the initialized service whose configured tab
\* exists, every spreadsheet request succeeding: header window read, scan
\* read, one values.update, then the formatting copy.
AddCardData(psaData) ==
  /\ calls < MaxCalls
  /\ \E plan \in {PlanWrite(sheet, psaData.GoogleSheetsData)} :
         /\ sheet' = ValuesUpdate(sheet, plan.request.startLetter,
                                  plan.request.endLetter, plan.request.row,
                                  plan.request.values)
         /\ last' = [op |-> "add", rec |-> psaData.GoogleSheetsData,
                     before |-> sheet, plan |-> plan,
                     format |-> ApplyFormattingAndValidation(plan.headerMap,
                                                             plan.targetRow)]
  /\ prev' = last
  /\ calls' = calls + 1
  /\ UNCHANGED stepVars

Next == \E d \in Records : AddCardData([GoogleSheetsData |-> d])

Spec == Init /\ [][Next]_vars

\* ------------------------------------------------ header inference alone
InitHeader ==
  /\ sheet \in HeaderGrids
  /\ last = NoCall
  /\ prev = NoCall
  /\ calls = 0
  /\ StepIdle

\* One getHeaderMap() call on the initialized service; the read of the
\* window succeeds or fails.
GetHeaderMapCall(readOk) ==
  /\ calls = 0
  /\ last' = [op |-> "headerMap", before |-> sheet, readOk |-> readOk,
              result |-> GetHeaderMapResult(sheet, readOk)]
  /\ calls' = 1
  /\ UNCHANGED <<sheet, prev>>
  /\ UNCHANGED stepVars

NextHeader == \E readOk \in BOOLEAN : GetHeaderMapCall(readOk)

SpecHeader == InitHeader /\ [][NextHeader]_vars

\* ------------------------------------------- addCardData, step by step
\* The HTTP status of a spreadsheet response: 200, or an error code.
Ok == 200
Responses == {200, 400, 403, 404, 500}

\* A request as logged: what it is, the row it addresses (0: none) and the
\* status it got.
Request(kind, row, code) == [kind |-> kind, row |-> row, code |-> code]

\* catch (error) of addCardData: the message by error.code (0: the error
\* carries no code).
MapError(code) ==
  IF code = 400 THEN "Invalid sheet range or data format"
  ELSE IF code = 404 THEN "Sheet not found in the spreadsheet"
  ELSE "Failed to add data to Google Sheets"

\* The locals of an addCardData call that has passed its argument guards.
NewRun(sheetsData) ==
  [op |-> "add", rec |-> sheetsData, headerMap |-> NullHeaderMap,
   headerOk |-> FALSE, plan |-> NoCall, scanSheet |-> <<>>,
   before |-> <<>>, written |-> <<>>, format |-> "none", outcome |-> "pending",
   message |-> "", result |-> NoCall, start |-> sheet,
   fmt |-> [templateRow |-> 0, destRow |-> 0],
   ready |-> svc.probed, hadClient |-> svc.sheets, idFrom |-> "none",
   sheetId |-> 0]

\* Fail with the error swallowed: the call returns as if it had succeeded.
FailSwallow(call, code) ==
  [call EXCEPT !.outcome = "success", !.message = MapError(code)]

\* throw new Error(...) out of the try block.
Fail(call, code) ==
  [call EXCEPT !.outcome = "error", !.message = MapError(code)]

\* Succeed with a failed formatting copy thrown out of addCardData.
SucceedPropagateFormat(call, format) ==
  IF format = "failed" THEN Fail(call, 0)
  ELSE [call EXCEPT !.outcome = "success", !.format = format,
               !.result = [updatedRange |->
                             [startLetter |-> call.plan.request.startLetter,
                              endLetter   |-> call.plan.request.endLetter,
                              row         |-> call.plan.request.row],
                           rowData |-> call.plan.writeRow]]

\* return { success: true, updatedRange, rowData: writeRow, ... }
Succeed(call, format) ==
  [call EXCEPT !.outcome = "success", !.format = format,
               !.result = [updatedRange |->
                             [startLetter |-> call.plan.request.startLetter,
                              endLetter   |-> call.plan.request.endLetter,
                              row         |-> call.plan.request.row],
                           rowData |-> call.plan.writeRow]]

\* if (this._sheetIdCache[name]) return this._sheetIdCache[name];
CacheHit(c, name) == name \in DOMAIN c /\ c[name] # 0

\* this._sheetIdCache[name] = id
CachePut(c, name, id) ==
  [t \in DOMAIN c \cup {name} |-> IF t = name THEN id ELSE c[t]]

\* The values.update request sent: the one built from the scan.
RequestToSendRescan(grid, call) ==
  PlanFrom(grid, call.headerMap, call.rec).request

RequestToSend(grid, call) == call.plan.request

\* One batchUpdate call per copyPaste request.
BatchCallsPerPaste(destRow, code) ==
  << Request("formatBatch", destRow, code), Request("formatBatch", destRow, code) >>

\* The batchUpdate calls of the formatting copy: both copyPaste requests go
\* in one call.
BatchCalls(destRow, code) == << Request("formatBatch", destRow, code) >>

\* The steps below leave these alone.
addUnchanged == <<last, prev, history, svc, world, batch>>

\* throw new Error('Google Sheets not initialized. Call initialize() first.')
NotInitialized == "Google Sheets not initialized. Call initialize() first."

\* addCardData(psaData) is called: without a client it throws at once;
\* else the argument guards pass and the call awaits ensureActiveSheet(true).
StartAddCardData(p, psaData) ==
  /\ pc[p] \in {"idle", "done"}
  /\ calls < MaxCalls
  /\ IF svc.sheets
       THEN /\ pc' = [pc EXCEPT ![p] = "ensure"]
            /\ run' = [run EXCEPT ![p] = NewRun(psaData.GoogleSheetsData)]
       ELSE /\ pc' = [pc EXCEPT ![p] = "done"]
            /\ run' = [run EXCEPT ![p] =
                         [NewRun(psaData.GoogleSheetsData) EXCEPT
                            !.outcome = "error", !.message = NotInitialized]]
  /\ ops' = [ops EXCEPT ![p] = <<>>]
  /\ calls' = calls + 1
  /\ UNCHANGED <<sheet, tabs, cache>>
  /\ UNCHANGED addUnchanged

\* info.sheets[0]: the first tab of the spreadsheet; the tabs are listed by
\* ascending id here.
FirstTab(tabsMap) ==
  CHOOSE t \in DOMAIN tabsMap : \A u \in DOMAIN tabsMap : tabsMap[t] <= tabsMap[u]

\* ensureActiveSheet falling back to the first tab in strict mode too.
EnsureActiveSheetLenient(strict, code, tabsMap, name) ==
  IF code # Ok \/ DOMAIN tabsMap = {}
    THEN [thrown |-> TRUE, sheetName |-> name]
  ELSE IF name \in DOMAIN tabsMap
    THEN [thrown |-> FALSE, sheetName |-> name]
  ELSE [thrown |-> FALSE, sheetName |-> FirstTab(tabsMap)]

\* ensureActiveSheet(strict) once spreadsheets.get has answered: an error
\* is rethrown by getSpreadsheetInfo without its code; a missing tab throws
\* in strict mode and else the first tab becomes the configured tab.
EnsureActiveSheetResult(strict, code, tabsMap, name) ==
  IF code # Ok \/ DOMAIN tabsMap = {}
    THEN [thrown |-> TRUE, sheetName |-> name]
  ELSE IF name \in DOMAIN tabsMap
    THEN [thrown |-> FALSE, sheetName |-> name]
  ELSE IF strict
    THEN [thrown |-> TRUE, sheetName |-> name]
  ELSE [thrown |-> FALSE, sheetName |-> FirstTab(tabsMap)]

\* ensureActiveSheet(true) of addCardData: spreadsheets.get answers.
EnsureActiveSheet(p, code) ==
  /\ pc[p] = "ensure"
  /\ ops' = [ops EXCEPT ![p] = Append(@, Request("metadata", 0, code))]
  /\ \E res \in {EnsureActiveSheetResult(TRUE, code, tabs, svc.sheetName)} :
       /\ svc' = [svc EXCEPT !.sheetName = res.sheetName]
       /\ IF ~res.thrown
            THEN /\ pc' = [pc EXCEPT ![p] = "header"]
                 /\ run' = run
            ELSE /\ pc' = [pc EXCEPT ![p] = "done"]
                 /\ run' = [run EXCEPT ![p] = Fail(@, 0)]
  /\ UNCHANGED <<sheet, calls, tabs, cache, last, prev, history, world, batch>>

\* getHeaderMap(): the read of the window answers.
HeaderRead(p, code) ==
  /\ pc[p] = "header"
  /\ ops' = [ops EXCEPT ![p] = Append(@, Request("headerRead", 0, code))]
  /\ run' = [run EXCEPT ![p].headerMap = GetHeaderMapResult(sheet, code = Ok),
                        ![p].headerOk = (code = Ok)]
  /\ pc' = [pc EXCEPT ![p] = "scan"]
  /\ UNCHANGED <<sheet, calls, tabs, cache>>
  /\ UNCHANGED addUnchanged

\* The scan read answers; on success the loop picks the target row and the
\* write payload is built.
ScanRead(p, code) ==
  /\ pc[p] = "scan"
  /\ ops' = [ops EXCEPT ![p] = Append(@, Request("scanRead", 0, code))]
  /\ IF code = Ok
       THEN /\ run' = [run EXCEPT
                         ![p].plan = PlanFrom(sheet, run[p].headerMap, run[p].rec),
                         ![p].scanSheet = sheet]
            /\ pc' = [pc EXCEPT ![p] = "update"]
       ELSE /\ run' = [run EXCEPT ![p] = Fail(@, code)]
            /\ pc' = [pc EXCEPT ![p] = "done"]
  /\ UNCHANGED <<sheet, calls, tabs, cache>>
  /\ UNCHANGED addUnchanged

\* values.update answers.  On success applyFormattingAndValidation runs up
\* to its first request: none (the call returns), the metadata read of
\* getSheetIdByName, or the batchUpdate when the id is cached.
Update(p, code) ==
  /\ pc[p] = "update"
  /\ ops' = [ops EXCEPT ![p] = Append(@, Request("update", run[p].plan.targetRow, code))]
  /\ IF code = Ok
       THEN \E req \in {RequestToSend(sheet, run[p])},
               fmt \in {ApplyFormattingAndValidation(run[p].headerMap,
                                                     run[p].plan.targetRow)} :
              \E grid \in {ValuesUpdate(sheet, req.startLetter, req.endLetter,
                                        req.row, req.values)} :
                /\ sheet' = grid
                /\ IF fmt.templateRow = 0
                     THEN /\ run' = [run EXCEPT ![p] =
                                       Succeed([@ EXCEPT !.before = sheet,
                                                   !.written = grid,
                                                   !.fmt = fmt], "skipped")]
                          /\ pc' = [pc EXCEPT ![p] = "done"]
                     ELSE /\ run' = [run EXCEPT ![p].before = sheet,
                                                 ![p].written = grid,
                                                 ![p].fmt = fmt,
                                                 ![p].idFrom =
                                                   IF CacheHit(cache, svc.sheetName)
                                                     THEN "cache" ELSE "none",
                                                 ![p].sheetId =
                                                   IF CacheHit(cache, svc.sheetName)
                                                     THEN cache[svc.sheetName] ELSE 0]
                          /\ pc' = [pc EXCEPT ![p] =
                                      IF CacheHit(cache, svc.sheetName)
                                        THEN "batch" ELSE "sheetId"]
       ELSE /\ sheet' = sheet
            /\ run' = [run EXCEPT ![p] = Fail(@, code)]
            /\ pc' = [pc EXCEPT ![p] = "done"]
  /\ UNCHANGED <<calls, tabs, cache>>
  /\ UNCHANGED addUnchanged

\* getSheetIdByName on a cache miss: spreadsheets.get answers; the id is
\* cached, or the error is caught by addCardData and the call returns.
SheetIdGet(p, code) ==
  /\ pc[p] = "sheetId"
  /\ ops' = [ops EXCEPT ![p] = Append(@, Request("sheetIdGet", 0, code))]
  /\ IF code = Ok /\ svc.sheetName \in DOMAIN tabs
       THEN /\ cache' = CachePut(cache, svc.sheetName, tabs[svc.sheetName])
            /\ svc' = [svc EXCEPT !.stale = @ \ {svc.sheetName}]
            /\ pc' = [pc EXCEPT ![p] = "batch"]
            /\ run' = [run EXCEPT ![p].idFrom = "metadata",
                                  ![p].sheetId = tabs[svc.sheetName]]
       ELSE /\ cache' = cache
            /\ svc' = svc
            /\ pc' = [pc EXCEPT ![p] = "done"]
            /\ run' = [run EXCEPT ![p] = Succeed(@, "failed")]
  /\ UNCHANGED <<sheet, calls, tabs, last, prev, history, world, batch>>

\* The batchUpdate of the formatting copy answers; the call returns.
FormatBatch(p, code) ==
  /\ pc[p] = "batch"
  /\ ops' = [ops EXCEPT ![p] = @ \o BatchCalls(run[p].plan.targetRow, code)]
  /\ run' = [run EXCEPT ![p] =
               Succeed(@, IF code = Ok THEN "copied" ELSE "failed")]
  /\ pc' = [pc EXCEPT ![p] = "done"]
  /\ UNCHANGED <<sheet, calls, tabs, cache>>
  /\ UNCHANGED addUnchanged

\* A sheet from its header rows and data rows.
SheetOf(layout, patterns) ==
  LET hm == GetHeaderMap(layout)
  IN  layout \o [i \in 1..Len(patterns) |->
                   MkRow(IndexOr(hm, "cardName", 0),
                         IndexOr(hm, "certNumber", 4), patterns[i])]

StdHeader ==
  << PadRow(<<H_CardName, H_CardNo, H_Condition, H_GradedQ,
              H_Company, H_Grade, H_CertNo>>) >>

PartialHeader == << PadRow(<<H_Inventory>>), PadRow(<<H_Notes, H_Cert, H_Name>>) >>

P_A     == [key |-> Key7,  name |-> NameX, fill |-> Filler]
P_Free  == [key |-> Empty, name |-> Empty, fill |-> Empty]
P_B     == [key |-> Key8,  name |-> NameY, fill |-> Filler]
P_Other == [key |-> Nine,  name |-> NameZ, fill |-> Filler]

\* The sheets the step-wise calls start from.
StepSheets ==
  { SheetOf(StdHeader, <<>>),
    SheetOf(StdHeader, <<P_A, P_Free, P_B>>),
    SheetOf(StdHeader, <<P_Other, P_Other>>),
    SheetOf(PartialHeader, <<P_Other>>),
    SheetOf(<<BlankRow>>, <<>>) }

\* The tabs of the spreadsheet: the configured tab as first tab (id 0), as
\* a later tab, or missing.
StepTabs ==
  { [t \in {SheetName} |-> 0],
    [t \in {SheetName, "Sheet1"} |-> IF t = SheetName THEN 7 ELSE 0],
    [t \in {"Sheet1"} |-> 0] }

StepRecords ==
  { MkData(NameX, Twelve, Empty, Nine, Key7),
    MkData(NameY, Twelve, PSA, Nine, Key8Pad) }

InitSteps ==
  /\ sheet \in StepSheets
  /\ tabs \in StepTabs
  /\ last = NoCall
  /\ prev = NoCall
  /\ calls = 0
  /\ pc = [p \in Callers |-> "idle"]
  /\ run = [p \in Callers |-> NoCall]
  /\ ops = [p \in Callers |-> <<>>]
  /\ cache = EmptyMap
  /\ history = <<>>
  /\ svc = ReadyService
  /\ world = EmptyMap
  /\ batch = NoBatch

\* One caller at a time; every spreadsheet request may fail.
NextSteps ==
  \E p \in {1} :
    \/ \E d \in StepRecords : StartAddCardData(p, [GoogleSheetsData |-> d])
    \/ \E code \in Responses :
         \/ EnsureActiveSheet(p, code)
         \/ HeaderRead(p, code)
         \/ ScanRead(p, code)
         \/ Update(p, code)
         \/ SheetIdGet(p, code)
         \/ FormatBatch(p, code)

SpecSteps == InitSteps /\ [][NextSteps]_vars

\* Calls of several callers interleave at their awaits; every request
\* succeeds.
NextRace ==
  \E p \in Callers :
    \/ \E d \in StepRecords : StartAddCardData(p, [GoogleSheetsData |-> d])
    \/ EnsureActiveSheet(p, Ok)
    \/ HeaderRead(p, Ok)
    \/ ScanRead(p, Ok)
    \/ Update(p, Ok)
    \/ SheetIdGet(p, Ok)
    \/ FormatBatch(p, Ok)

SpecRace == InitSteps /\ [][NextRace]_vars

\* ------------------------------------------ saveScanHistory, step by step
\* values: [['Timestamp', 'Cert Number', 'Status', 'Card Name',
\*           'Card Number', 'Grade', 'Full Data']]
HistoryHeaderRow ==
  << <<"T","i","m","e","s","t","a","m","p">>,
     <<"C","e","r","t"," ","N","u","m","b","e","r">>,
     <<"S","t","a","t","u","s">>,
     <<"C","a","r","d"," ","N","a","m","e">>,
     <<"C","a","r","d"," ","N","u","m","b","e","r">>,
     <<"G","r","a","d","e">>,
     <<"F","u","l","l"," ","D","a","t","a">> >>

T_Unknown      == <<"U","n","k","n","o","w","n">>
T_LookupFailed == <<"L","o","o","k","u","p"," ","F","a","i","l","e","d">>
T_NA           == <<"N","/","A">>
T_Success      == <<"s","u","c","c","e","s","s">>
T_Error        == <<"e","r","r","o","r">>

\* JSON.stringify(cardData): the members of the object between braces.
Stringify(cardData) ==
  <<"{">> \o cardData.Subject \o <<",">> \o cardData.CardNumber
          \o <<",">> \o cardData.NumericGrade \o <<"}">>

\* const values = [[timestamp, certNumber, status, ...]]; a null member is
\* sent as null and leaves its cell blank.
HistoryRow(certNumber, cardData, status, timestamp) ==
  << timestamp,
     certNumber,
     status,
     IF cardData.isNull THEN T_LookupFailed
       ELSE OrElse(cardData.Subject, OrElse(cardData.CardName, T_Unknown)),
     IF cardData.isNull THEN T_NA ELSE OrElse(cardData.CardNumber, T_NA),
     IF cardData.isNull THEN T_NA ELSE OrElse(cardData.NumericGrade, T_NA),
     IF cardData.isNull THEN Empty ELSE Stringify(cardData) >>

\* spreadsheets.values.append on `Tab!A:G`: the row lands below the last
\* row holding a value.
ValuesAppend(grid, values) ==
  ValuesUpdate(grid, ColumnIndexToLetter(0), ColumnIndexToLetter(6),
               LastRowIn(grid, Len(grid), 1, NumCols) + 1, values)

\* The numeric id the spreadsheet gives a tab it adds.
NewSheetId(t) == 1 + MaxOf({t[n] : n \in DOMAIN t})

\* The locals of a saveScanHistory call.
NewHistoryRun(row) ==
  [op |-> "history", row |-> row, tabExisted |-> HistorySheetName \in DOMAIN tabs,
   before |-> history, outcome |-> "pending", message |-> "", range |-> 0]

\* The steps of saveScanHistory leave these alone.
historyUnchanged == <<sheet, last, prev, cache, svc, world, batch>>

\* saveScanHistory(certNumber, cardData, status, timestamp) is called on
\* the initialized service and awaits ensureScanHistorySheet.
StartSaveScanHistory(p, certNumber, cardData, status, timestamp) ==
  /\ pc[p] \in {"idle", "done"}
  /\ calls < MaxCalls
  /\ pc' = [pc EXCEPT ![p] = "historyInfo"]
  /\ run' = [run EXCEPT ![p] =
               NewHistoryRun(HistoryRow(certNumber, cardData, status, timestamp))]
  /\ ops' = [ops EXCEPT ![p] = <<>>]
  /\ calls' = calls + 1
  /\ UNCHANGED <<tabs, history>>
  /\ UNCHANGED historyUnchanged

\* ensureScanHistorySheet: getSpreadsheetInfo answers.  A failure is caught
\* and logged, and saveScanHistory goes on to append.
HistoryInfo(p, code) ==
  /\ pc[p] = "historyInfo"
  /\ ops' = [ops EXCEPT ![p] = Append(@, Request("metadata", 0, code))]
  /\ pc' = [pc EXCEPT ![p] =
              IF code = Ok /\ HistorySheetName \notin DOMAIN tabs
                THEN "addSheet" ELSE "append"]
  /\ UNCHANGED <<run, calls, tabs, history>>
  /\ UNCHANGED historyUnchanged

\* ensureScanHistorySheet: the addSheet batchUpdate answers (the
\* spreadsheet refuses a title it already has); a failure is caught.
HistoryAddSheet(p, code) ==
  /\ pc[p] = "addSheet"
  /\ \E answer \in {IF HistorySheetName \in DOMAIN tabs /\ code = Ok
                      THEN 400 ELSE code} :
       /\ ops' = [ops EXCEPT ![p] = Append(@, Request("addSheet", 0, answer))]
       /\ IF answer = Ok
            THEN /\ tabs' = CachePut(tabs, HistorySheetName, NewSheetId(tabs))
                 /\ history' = <<>>
                 /\ pc' = [pc EXCEPT ![p] = "historyHeader"]
            ELSE /\ UNCHANGED <<tabs, history>>
                 /\ pc' = [pc EXCEPT ![p] = "append"]
  /\ UNCHANGED <<run, calls>>
  /\ UNCHANGED historyUnchanged

\* ensureScanHistorySheet: the values.update of A1:G1 answers; a failure is
\* caught.
HistoryHeader(p, code) ==
  /\ pc[p] = "historyHeader"
  /\ ops' = [ops EXCEPT ![p] = Append(@, Request("historyHeader", 1, code))]
  /\ history' = IF code = Ok
                  THEN ValuesUpdate(history, ColumnIndexToLetter(0),
                                    ColumnIndexToLetter(6), 1, HistoryHeaderRow)
                  ELSE history
  /\ pc' = [pc EXCEPT ![p] = "append"]
  /\ UNCHANGED <<run, calls, tabs>>
  /\ UNCHANGED historyUnchanged

\* values.append answers (a range on a tab that does not exist is an
\* error); the call returns the updated range or throws.
HistoryAppend(p, code) ==
  /\ pc[p] = "append"
  /\ \E answer \in {IF HistorySheetName \notin DOMAIN tabs /\ code = Ok
                      THEN 400 ELSE code} :
       /\ ops' = [ops EXCEPT ![p] = Append(@, Request("append", 0, answer))]
       /\ IF answer = Ok
            THEN \E grid \in {ValuesAppend(history, run[p].row)} :
                   /\ history' = grid
                   /\ run' = [run EXCEPT ![p].outcome = "success",
                                         ![p].range = Len(grid)]
            ELSE /\ history' = history
                 /\ run' = [run EXCEPT
                              ![p].outcome = "error",
                              ![p].message = "Failed to save scan history"]
  /\ pc' = [pc EXCEPT ![p] = "done"]
  /\ UNCHANGED <<calls, tabs>>
  /\ UNCHANGED historyUnchanged

T_Time1 == <<"t","1">>
T_Time2 == <<"t","2">>

\* cardData of a lookup: null, or the card.
NoCard == [isNull |-> TRUE, Subject |-> Empty, CardName |-> Empty,
           CardNumber |-> Empty, NumericGrade |-> Empty]

Card(subject, cardNumber, grade) ==
  [isNull |-> FALSE, Subject |-> subject, CardName |-> Empty,
   CardNumber |-> cardNumber, NumericGrade |-> grade]

\* The lookups recorded: a success and a failure.
HistoryInputs ==
  { [certNumber |-> Key7, cardData |-> Card(NameX, Twelve, Nine),
     status |-> T_Success, timestamp |-> T_Time1],
    [certNumber |-> Key8, cardData |-> Card(Empty, Empty, Empty),
     status |-> T_Success, timestamp |-> T_Time2],
    [certNumber |-> Nine, cardData |-> NoCard,
     status |-> T_Error, timestamp |-> T_Time2] }

\* The spreadsheet before the first call: no log tab yet, or a log tab the
\* service made earlier, with its header and the entries so far.
HistoryStarts ==
  { [tabs |-> [t \in {SheetName} |-> 0], history |-> <<>>],
    [tabs |-> [t \in {SheetName, HistorySheetName} |->
                 IF t = SheetName THEN 0 ELSE 1],
     history |-> << PadRow(HistoryHeaderRow) >>],
    [tabs |-> [t \in {SheetName, HistorySheetName} |->
                 IF t = SheetName THEN 0 ELSE 1],
     history |-> << PadRow(HistoryHeaderRow),
                    PadRow(HistoryRow(Nine, Card(NameZ, Twelve, Nine),
                                      T_Success, T_Time1)) >>] }

InitHistory ==
  /\ sheet \in {SheetOf(StdHeader, <<>>)}
  /\ \E start \in HistoryStarts : tabs = start.tabs /\ history = start.history
  /\ last = NoCall
  /\ prev = NoCall
  /\ calls = 0
  /\ pc = [p \in Callers |-> "idle"]
  /\ run = [p \in Callers |-> NoCall]
  /\ ops = [p \in Callers |-> <<>>]
  /\ cache = EmptyMap
  /\ svc = ReadyService
  /\ world = EmptyMap
  /\ batch = NoBatch

\* One caller at a time; every spreadsheet request may fail.
NextHistory ==
  \E p \in {1} :
    \/ \E i \in HistoryInputs :
         StartSaveScanHistory(p, i.certNumber, i.cardData, i.status, i.timestamp)
    \/ \E code \in Responses :
         \/ HistoryInfo(p, code)
         \/ HistoryAddSheet(p, code)
         \/ HistoryHeader(p, code)
         \/ HistoryAppend(p, code)

SpecHistory == InitHistory /\ [][NextHistory]_vars

\* saveScanHistory calls of several callers interleave at their awaits;
\* every request gets the answer the spreadsheet gives when nothing fails.
NextHistoryRace ==
  \E p \in Callers :
    \/ \E i \in HistoryInputs :
         StartSaveScanHistory(p, i.certNumber, i.cardData, i.status, i.timestamp)
    \/ HistoryInfo(p, Ok)
    \/ HistoryAddSheet(p, Ok)
    \/ HistoryHeader(p, Ok)
    \/ HistoryAppend(p, Ok)

SpecHistoryRace == InitHistory /\ [][NextHistoryRace]_vars

\* ------------------------------------------------------ loadScanHistory
\* throw new Error(`Failed to initialize Google Sheets: ...`)
InitializeFailed == "Failed to initialize Google Sheets"

\* initialize() on a service: without credentials it throws before a client
\* is made; else the client is set and the metadata probe is sent, and a
\* failed probe throws with the client left in place.
InitializeResult(service, code) ==
  IF ~service.credentials
    THEN [svc |-> service, ok |-> FALSE, requests |-> <<>>]
    ELSE [svc |-> [service EXCEPT !.auth = TRUE, !.sheets = TRUE,
                                  !.probed = (code = Ok)],
          ok |-> (code = Ok),
          requests |-> <<Request("metadata", 0, code)>>]

\* Array.prototype.slice(start) with a start that may be negative.
JsSlice(seq, start) ==
  LET from == IF start < 0 THEN Max2(Len(seq) + start, 0)
              ELSE Min2(start, Len(seq))
  IN  SubSeq(seq, from + 1, Len(seq))

\* Array.prototype.reverse()
Reverse(seq) == [i \in 1..Len(seq) |-> seq[Len(seq) + 1 - i]]

\* The parts of a text between the separators.
RECURSIVE SplitOn(_, _, _, _)
SplitOn(text, sep, part, acc) ==
  IF text = <<>> THEN Append(acc, part)
  ELSE IF Head(text) = sep
    THEN SplitOn(Tail(text), sep, <<>>, Append(acc, part))
    ELSE SplitOn(Tail(text), sep, Append(part, Head(text)), acc)

\* JSON.parse of a payload cell: the object Stringify wrote, or a failure.
ParseCard(text) ==
  IF Len(text) >= 2 /\ text[1] = "{" /\ text[Len(text)] = "}"
    THEN LET parts == SplitOn(SubSeq(text, 2, Len(text) - 1), ",", <<>>, <<>>)
         IN  IF Len(parts) = 3
               THEN [ok |-> TRUE,
                     cardData |-> [isNull |-> FALSE, Subject |-> parts[1],
                                   CardName |-> Empty, CardNumber |-> parts[2],
                                   NumericGrade |-> parts[3]]]
               ELSE [ok |-> FALSE, cardData |-> <<>>]
    ELSE [ok |-> FALSE, cardData |-> <<>>]

\* A null cardData of a loaded entry.
NullCard == [isNull |-> TRUE, Subject |-> Empty, CardName |-> Empty,
             CardNumber |-> Empty, NumericGrade |-> Empty]

\* LoadedEntry with the fallback of the catch left out: a payload that does
\* not parse gives null.
LoadedEntryNoFallback(row) ==
  LET status == CellAt(row, 2)
      json   == CellAt(row, 6)
      parsed == ParseCard(json)
  IN  [timestamp  |-> CellAt(row, 0),
       certNumber |-> CellAt(row, 1),
       status     |-> status,
       cardData   |->
         IF json # Empty /\ status = T_Success /\ parsed.ok
           THEN parsed.cardData
           ELSE NullCard]

\* recentRows.map(row => ...): the entry of a row as read (trailing blank
\* cells missing).
LoadedEntry(row) ==
  LET status == CellAt(row, 2)
      json   == CellAt(row, 6)
      parsed == ParseCard(json)
  IN  [timestamp  |-> CellAt(row, 0),
       certNumber |-> CellAt(row, 1),
       status     |-> status,
       cardData   |->
         IF json # Empty /\ status = T_Success
           THEN IF parsed.ok THEN parsed.cardData
                ELSE [isNull |-> FALSE, Subject |-> CellAt(row, 3),
                      CardName |-> Empty, CardNumber |-> CellAt(row, 4),
                      NumericGrade |-> CellAt(row, 5)]
           ELSE NullCard]

\* rows.slice(1).slice(-limit).reverse().map(...)
RecentEntries(rows, limit) ==
  LET recentRows == Reverse(JsSlice(JsSlice(rows, 1), 0 - limit))
  IN  [i \in 1..Len(recentRows) |-> LoadedEntry(recentRows[i])]

\* What loadScanHistory does once a client is in place: the tab list, then
\* the read of `Scan History!A:G`; every error is caught and gives [].
LoadWithClient(infoCode, readCode, limit) ==
  IF infoCode # Ok
    THEN [thrown |-> FALSE, result |-> <<>>,
          requests |-> <<Request("metadata", 0, infoCode)>>]
  ELSE IF HistorySheetName \notin DOMAIN tabs
    THEN [thrown |-> FALSE, result |-> <<>>,
          requests |-> <<Request("metadata", 0, infoCode)>>]
  ELSE IF readCode # Ok
    THEN [thrown |-> FALSE, result |-> <<>>,
          requests |-> <<Request("metadata", 0, infoCode),
                         Request("historyRead", 0, readCode)>>]
  ELSE [thrown |-> FALSE,
        result |-> RecentEntries(ValuesGet(history, 1, 0, 1, 7), limit),
        requests |-> <<Request("metadata", 0, infoCode),
                       Request("historyRead", 0, readCode)>>]

\* loadScanHistory(limit): without a client it first awaits initialize(),
\* outside its try block; the three requests get their answers.
LoadScanHistory(limit, initCode, infoCode, readCode) ==
  /\ calls < MaxCalls
  /\ \E init \in {IF svc.sheets
                    THEN [svc |-> svc, ok |-> TRUE, requests |-> <<>>]
                    ELSE InitializeResult(svc, initCode)} :
       /\ svc' = init.svc
       /\ IF init.ok
            THEN \E load \in {LoadWithClient(infoCode, readCode, limit)} :
                   last' = [op |-> "load", limit |-> limit,
                            thrown |-> load.thrown, message |-> "",
                            result |-> load.result,
                            requests |-> init.requests \o load.requests,
                            log |-> history, hadClient |-> svc.sheets,
                            tabExists |-> HistorySheetName \in DOMAIN tabs]
            ELSE last' = [op |-> "load", limit |-> limit,
                          thrown |-> TRUE, message |-> InitializeFailed,
                          result |-> <<>>, requests |-> init.requests,
                          log |-> history, hadClient |-> svc.sheets,
                            tabExists |-> HistorySheetName \in DOMAIN tabs]
  /\ calls' = calls + 1
  /\ UNCHANGED <<sheet, prev, pc, run, ops, tabs, cache, history, world, batch>>

\* The limits passed: GET /api/scan-history passes any non-zero integer of
\* the query, and a caller of the service may pass 0.
Limits == (0 - 1)..MaxLimit

Digits == <<"0","1","2","3","4","5","6","7","8","9">>

\* The i-th entry of an initial log, five kinds in turn: a lookup that
\* succeeded, one whose payload cell was cut short afterwards, a failed
\* lookup saved with a payload, a failed lookup without one, and a success
\* saved without a payload.
LogRow(i) ==
  LET key  == <<Digits[(i % 10) + 1]>>
      kind == i % 5
      row  == HistoryRow(key,
                         IF kind \in {4, 0} THEN NoCard
                         ELSE Card(NameX, Twelve, key),
                         IF kind \in {3, 4} THEN T_Error ELSE T_Success,
                         <<"t", Digits[(i % 10) + 1]>>)
  IN  PadRow(IF kind = 2
               THEN [row EXCEPT ![7] = SubSeq(@, 1, Len(@) - 1)]
               ELSE row)

\* The logs saveScanHistory leaves: the header and the entries so far.
Logs == { <<PadRow(HistoryHeaderRow)>> \o [i \in 1..n |-> LogRow(i)] : n \in 0..MaxEntries }

\* The service as constructed, with or without credentials.
FreshService(credentials) ==
  [sheets |-> FALSE, auth |-> FALSE, credentials |-> credentials,
   spreadsheetId |-> "S1", sheetName |-> SheetName, probed |-> FALSE,
   stale |-> {}, changes |-> 0]

InitLoad ==
  /\ sheet \in {SheetOf(StdHeader, <<>>)}
  /\ \/ /\ tabs = [t \in {SheetName} |-> 0]
        /\ history = <<>>
     \/ /\ tabs = [t \in {SheetName, HistorySheetName} |->
                     IF t = SheetName THEN 0 ELSE 1]
        /\ history \in Logs
  /\ svc \in {ReadyService, FreshService(TRUE), FreshService(FALSE)}
  /\ world = EmptyMap
  /\ batch = NoBatch
  /\ last = NoCall
  /\ prev = NoCall
  /\ calls = 0
  /\ pc = [p \in Callers |-> "idle"]
  /\ run = [p \in Callers |-> NoCall]
  /\ ops = [p \in Callers |-> <<>>]
  /\ cache = EmptyMap

NextLoad ==
  \E limit \in Limits, initCode \in Responses, infoCode \in Responses,
     readCode \in Responses :
    LoadScanHistory(limit, initCode, infoCode, readCode)

SpecLoad == InitLoad /\ [][NextLoad]_vars

\* ----------------------------------------- configuration of the service
\* The spreadsheets the service can be pointed at, and their tabs.
Spreadsheets == {"S1", "S2"}
OtherTab == "Sheet1"

TabsOf(id) ==
  IF id = "S1"
    THEN [t \in {SheetName, OtherTab} |-> IF t = SheetName THEN 7 ELSE 0]
    ELSE [t \in {SheetName} |-> 3]

\* The grid every tab starts with: the standard header and one data row, so
\* that a written row has a row above it to copy the formatting from.
ConfigSheet == SheetOf(StdHeader, <<P_Other>>)

\* Every tab of every spreadsheet with its grid.
AllGrids ==
  [k \in {<<id, t>> : id \in Spreadsheets, t \in {SheetName, OtherTab}}
     \cap {k \in Spreadsheets \X {SheetName, OtherTab} : k[2] \in DOMAIN TabsOf(k[1])}
   |-> ConfigSheet]

\* getStatus()
GetStatus(service) ==
  [configured    |-> service.credentials,
   initialized   |-> service.sheets,
   spreadsheetId |-> service.spreadsheetId,
   sheetName     |-> service.sheetName,
   hasAuth       |-> service.auth]

\* No other request is in flight.
Quiet == \A p \in Callers : pc[p] \in {"idle", "done"}

\* initialize() is called (by a route that found getStatus().initialized
\* false, or directly) and its probe answers.
Initialize(code) ==
  /\ Quiet
  /\ svc.changes < MaxChanges
  /\ \E init \in {InitializeResult(svc, code)} :
       /\ svc' = [init.svc EXCEPT !.changes = @ + 1]
       /\ last' = [op |-> "initialize", thrown |-> ~init.ok,
                   message |-> IF init.ok THEN "" ELSE InitializeFailed,
                   requests |-> init.requests,
                   ready |-> svc.probed, hadClient |-> svc.sheets,
                   status |-> GetStatus(init.svc)]
  /\ UNCHANGED <<sheet, prev, calls, pc, run, ops, tabs, cache, history, world,
                 batch>>

\* ensureInitialized() of the routes: initialize() is called when
\* getStatus().initialized is false, and not otherwise.
EnsureInitialized(code) ==
  /\ Quiet
  /\ svc.changes < MaxChanges
  /\ IF ~GetStatus(svc).initialized
       THEN \E init \in {InitializeResult(svc, code)} :
              /\ svc' = [init.svc EXCEPT !.changes = @ + 1]
              /\ last' = [op |-> "ensureInitialized", attempted |-> TRUE,
                          thrown |-> ~init.ok,
                          message |-> IF init.ok THEN "" ELSE InitializeFailed,
                          requests |-> init.requests,
                          ready |-> svc.probed, hadClient |-> svc.sheets,
                          status |-> GetStatus(init.svc)]
       ELSE /\ svc' = [svc EXCEPT !.changes = @ + 1]
            /\ last' = [op |-> "ensureInitialized", attempted |-> FALSE,
                        thrown |-> FALSE, message |-> "", requests |-> <<>>,
                        ready |-> svc.probed, hadClient |-> svc.sheets,
                        status |-> GetStatus(svc)]
  /\ UNCHANGED <<sheet, prev, calls, pc, run, ops, tabs, cache, history, world,
                 batch>>

\* The grids with the grid of the configured tab put back.
StoredGrids ==
  IF <<svc.spreadsheetId, svc.sheetName>> \in DOMAIN world
    THEN [world EXCEPT ![<<svc.spreadsheetId, svc.sheetName>>] = sheet]
    ELSE world

\* updateConfig(spreadsheetId, sheetName): the target is replaced and the
\* client dropped; _sheetIdCache is left as it is.  A sheetName that is
\* empty gives the default.
UpdateConfig(spreadsheetId, sheetName) ==
  /\ Quiet
  /\ svc.changes < MaxChanges
  /\ \E name \in {IF sheetName = "" THEN SheetName ELSE sheetName} :
       /\ svc' = [svc EXCEPT
            !.spreadsheetId = spreadsheetId,
            !.sheetName = name,
            !.auth = FALSE,
            !.sheets = FALSE,
            !.probed = FALSE,
            !.stale = IF spreadsheetId # svc.spreadsheetId
                        THEN DOMAIN cache ELSE @,
            !.changes = @ + 1]
       /\ world' = StoredGrids
       /\ tabs' = TabsOf(spreadsheetId)
       /\ sheet' = IF <<spreadsheetId, name>> \in DOMAIN StoredGrids
                     THEN StoredGrids[<<spreadsheetId, name>>] ELSE <<>>
       /\ last' = [op |-> "updateConfig", thrown |-> FALSE, message |-> "",
                   requests |-> <<>>, ready |-> svc.probed,
                   hadClient |-> svc.sheets,
                   status |-> GetStatus([svc EXCEPT
                                !.spreadsheetId = spreadsheetId,
                                !.sheetName = name, !.auth = FALSE,
                                !.sheets = FALSE])]
  /\ UNCHANGED <<prev, calls, pc, run, ops, cache, history, batch>>

\* getSpreadsheetInfo() called from outside: without a client it throws at
\* once; else spreadsheets.get answers and an error is rethrown.
GetSpreadsheetInfoCall(code) ==
  /\ Quiet
  /\ last' = IF ~svc.sheets
               THEN [op |-> "info", thrown |-> TRUE, message |-> NotInitialized,
                     requests |-> <<>>, ready |-> svc.probed,
                     hadClient |-> svc.sheets, status |-> GetStatus(svc)]
               ELSE [op |-> "info", thrown |-> code # Ok,
                     message |-> IF code = Ok THEN ""
                                 ELSE IF code = 404
                                   THEN "Spreadsheet not found or access denied"
                                 ELSE "Failed to access spreadsheet",
                     requests |-> <<Request("metadata", 0, code)>>,
                     ready |-> svc.probed, hadClient |-> svc.sheets,
                     status |-> GetStatus(svc)]
  /\ UNCHANGED <<sheet, prev, calls, pc, run, ops, tabs, cache, history, svc,
                 world, batch>>

\* getHeaderMap() called from outside: without a client it throws at once;
\* else the window read answers, and a failed read gives null.
GetHeaderMapGuarded(code) ==
  /\ Quiet
  /\ last' = IF ~svc.sheets
               THEN [op |-> "guardedHeaderMap", thrown |-> TRUE,
                     message |-> NotInitialized,
                     requests |-> <<>>, ready |-> svc.probed,
                     hadClient |-> svc.sheets, status |-> GetStatus(svc)]
               ELSE [op |-> "guardedHeaderMap", thrown |-> FALSE, message |-> "",
                     requests |-> <<Request("headerRead", 0, code)>>,
                     ready |-> svc.probed, hadClient |-> svc.sheets,
                     status |-> GetStatus(svc)]
  /\ UNCHANGED <<sheet, prev, calls, pc, run, ops, tabs, cache, history, svc,
                 world, batch>>

\* ensureActiveSheet(strict) called from outside: without a client
\* getSpreadsheetInfo throws at once; else spreadsheets.get answers, and in
\* non-strict mode a missing tab is replaced by the first tab.
EnsureActiveSheetCall(strict, code) ==
  /\ Quiet
  /\ IF ~svc.sheets
       THEN /\ last' = [op |-> "ensureActiveSheet", strict |-> strict,
                        thrown |-> TRUE, message |-> NotInitialized,
                        requests |-> <<>>, ready |-> svc.probed,
                        hadClient |-> svc.sheets, status |-> GetStatus(svc)]
            /\ UNCHANGED <<svc, sheet, world>>
       ELSE \E res \in {EnsureActiveSheetResult(strict, code, tabs, svc.sheetName)} :
              /\ svc' = [svc EXCEPT !.sheetName = res.sheetName]
              /\ world' = StoredGrids
              /\ sheet' = IF res.sheetName = svc.sheetName THEN sheet
                          ELSE StoredGrids[<<svc.spreadsheetId, res.sheetName>>]
              /\ last' = [op |-> "ensureActiveSheet", strict |-> strict,
                          thrown |-> res.thrown, message |-> "",
                          requests |-> <<Request("metadata", 0, code)>>,
                          ready |-> svc.probed, hadClient |-> svc.sheets,
                          status |-> GetStatus(svc)]
  /\ UNCHANGED <<prev, calls, pc, run, ops, tabs, cache, history, batch>>

\* The tab names passed to updateConfig.
ConfigNames == {"", SheetName, OtherTab}

\* The answers of the spreadsheet service here: success, or not found.
ConfigResponses == {Ok, 404}

InitConfig ==
  /\ sheet = ConfigSheet
  /\ tabs = TabsOf("S1")
  /\ world = AllGrids
  /\ svc \in {FreshService(TRUE), FreshService(FALSE)}
  /\ last = NoCall
  /\ prev = NoCall
  /\ calls = 0
  /\ pc = [p \in Callers |-> "idle"]
  /\ run = [p \in Callers |-> NoCall]
  /\ ops = [p \in Callers |-> <<>>]
  /\ cache = EmptyMap
  /\ history = <<>>
  /\ batch = NoBatch

\* One request at a time: changes of configuration, initialization and
\* calls of the service in any order; every spreadsheet request may fail.
NextConfig ==
  \/ \E id \in Spreadsheets, name \in ConfigNames : UpdateConfig(id, name)
  \/ \E code \in ConfigResponses :
       \/ Initialize(code)
       \/ EnsureInitialized(code)
       \/ GetSpreadsheetInfoCall(code)
       \/ GetHeaderMapGuarded(code)
       \/ \E strict \in BOOLEAN : EnsureActiveSheetCall(strict, code)
       \/ EnsureActiveSheet(1, code)
       \/ HeaderRead(1, code)
       \/ ScanRead(1, code)
       \/ Update(1, code)
       \/ SheetIdGet(1, code)
       \/ FormatBatch(1, code)
  \/ \E d \in StepRecords : StartAddCardData(1, [GoogleSheetsData |-> d])

SpecConfig == InitConfig /\ [][NextConfig]_vars

\* ------------------------------------------------ batchGetCertificates
\* A list element that is null (c?.toString() gives undefined for it).
Null == <<"null">>

\* certNumbers.map(c => c?.toString().trim()).filter(Boolean)
RECURSIVE Normalized(_)
Normalized(certNumbers) ==
  IF certNumbers = <<>> THEN <<>>
  ELSE LET c == Head(certNumbers)
           t == IF c = Null THEN Empty ELSE Trim(c)
       IN  IF t = Empty THEN Normalized(Tail(certNumbers))
           ELSE <<t>> \o Normalized(Tail(certNumbers))

\* Array.from(new Set(list)): the first occurrence of each element, in order.
RECURSIVE Unique(_, _)
Unique(list, seen) ==
  IF list = <<>> THEN <<>>
  ELSE IF Head(list) \in seen THEN Unique(Tail(list), seen)
  ELSE <<Head(list)>> \o Unique(Tail(list), seen \cup {Head(list)})

\* process.env.BATCH_LOOKUP_CONCURRENCY when the variable is not set.
Unset == <<"unset">>

NaN == [nan |-> TRUE, value |-> 0]
Num(n) == [nan |-> FALSE, value |-> n]

IsDigit(c) == \E i \in 1..10 : Digits[i] = c
DigitValue(c) == (CHOOSE i \in 1..10 : Digits[i] = c) - 1

\* The value of a run of decimal digits.
RECURSIVE DecimalValue(_, _)
DecimalValue(chars, acc) ==
  IF chars = <<>> THEN acc
  ELSE DecimalValue(Tail(chars), acc * 10 + DigitValue(Head(chars)))

\* Number(text) on the texts an environment variable holds here: blanks
\* around the number are ignored, a blank text is 0, an optional sign and
\* decimal digits give the integer, anything else is NaN.
NumberOf(text) ==
  LET t      == Trim(text)
      signed == t # Empty /\ Head(t) \in {"-", "+"}
      digits == IF signed THEN Tail(t) ELSE t
  IN  IF t = Empty THEN Num(0)
      ELSE IF digits # Empty /\ \A i \in 1..Len(digits) : IsDigit(digits[i])
        THEN IF signed /\ Head(t) = "-"
               THEN Num(0 - DecimalValue(digits, 0))
               ELSE Num(DecimalValue(digits, 0))
      ELSE NaN

\* const limit = Number(process.env.BATCH_LOOKUP_CONCURRENCY || 5)
ConcurrencyLimit(env) ==
  IF env = Unset \/ env = Empty THEN Num(5) ELSE NumberOf(env)

\* Array.from({ length: Math.min(limit, unique.length || 1) }, ...): the
\* number of workers started; a length that is NaN or negative gives none.
PoolSizeIgnoringLimit(limit, uniqueCount) ==
  IF uniqueCount = 0 THEN 1 ELSE uniqueCount

PoolSize(limit, uniqueCount) ==
  LET n == IF uniqueCount = 0 THEN 1 ELSE uniqueCount
  IN  IF limit.nan THEN 0
      ELSE IF Min2(limit.value, n) < 0 THEN 0
      ELSE Min2(limit.value, n)

\* psaService.getCertificateData(cert) settles with the certificate or with
\* an error.
Found    == "found"
NotFound == "PSA API error: Certificate not found"
LookupOutcomes == {Found, NotFound}

UnknownError == "Unknown error"

\* A worker that has run up to its next await: it takes the head of the
\* queue and starts the lookup of it, or returns when the queue is empty.
Done == [state |-> "done", cert |-> Empty]
Awaiting(cert) == [state |-> "await", cert |-> cert]

\* workers = Array.from({length}, () => worker()): the workers are started
\* one after the other, each running to its first await.
RECURSIVE StartWorkers(_, _, _, _)
StartWorkers(n, queue, workers, lookups) ==
  IF n = 0 THEN [queue |-> queue, workers |-> workers, lookups |-> lookups]
  ELSE IF queue = <<>>
    THEN StartWorkers(n - 1, queue, Append(workers, Done), lookups)
    ELSE StartWorkers(n - 1, Tail(queue),
                      Append(workers, Awaiting(Head(queue))),
                      Append(lookups, Head(queue)))

\* A request that has arrived, and the setting the process runs under.
Received(certNumbers, env) ==
  [phase |-> "received", certNumbers |-> certNumbers, env |-> env]

\* The request handler up to `await Promise.all(workers)`.
StartBatch(certNumbers, env) ==
  /\ batch.phase = "received"
  /\ calls' = calls + 1
  /\ IF certNumbers = <<>>
       THEN batch' = [phase |-> "done", status |-> 400, certNumbers |-> certNumbers,
                      env |-> env, normalized |-> <<>>, unique |-> <<>>,
                      limit |-> ConcurrencyLimit(env), queue |-> <<>>,
                      cache |-> EmptyMap, workers |-> <<>>, lookups |-> <<>>,
                      results |-> <<>>]
       ELSE LET normalized == Normalized(certNumbers)
                unique     == Unique(normalized, {})
                limit      == ConcurrencyLimit(env)
                started    == StartWorkers(PoolSize(limit, Len(unique)), unique,
                                           <<>>, <<>>)
            IN  batch' = [phase |-> "running", status |-> 0,
                          certNumbers |-> certNumbers, env |-> env,
                          normalized |-> normalized, unique |-> unique,
                          limit |-> limit, queue |-> started.queue,
                          cache |-> EmptyMap, workers |-> started.workers,
                          lookups |-> started.lookups, results |-> <<>>]
  /\ UNCHANGED <<sheet, last, prev, pc, run, ops, tabs, cache, history, svc, world>>

\* cache.set(cert, ...) of a map: the entry is added or replaced.
CacheSet(map, cert, outcome) ==
  [k \in DOMAIN map \cup {cert} |-> IF k = cert THEN outcome ELSE map[k]]

\* The lookup worker w awaits settles: the outcome is stored, and the
\* worker goes round its loop to the next await or returns.
LookupSettles(w, outcome) ==
  /\ batch.phase = "running"
  /\ w \in 1..Len(batch.workers)
  /\ batch.workers[w].state = "await"
  /\ batch' = [batch EXCEPT
       !.cache   = CacheSet(batch.cache, batch.workers[w].cert, outcome),
       !.workers[w] = IF batch.queue = <<>> THEN Done
                      ELSE Awaiting(Head(batch.queue)),
       !.queue   = IF batch.queue = <<>> THEN <<>> ELSE Tail(batch.queue),
       !.lookups = IF batch.queue = <<>> THEN batch.lookups
                   ELSE Append(batch.lookups, Head(batch.queue))]
  /\ UNCHANGED <<sheet, last, prev, calls, pc, run, ops, tabs, cache, history,
                 svc, world>>

\* normalized.map(cert => ({certNumber: cert, ...(cache.get(cert) || {...})}))
ResultOf(map, cert) ==
  [certNumber |-> cert,
   outcome    |-> IF cert \in DOMAIN map THEN map[cert] ELSE UnknownError]

\* Promise.all(workers) resolved: the response is built and sent.
Respond ==
  /\ batch.phase = "running"
  /\ \A w \in 1..Len(batch.workers) : batch.workers[w].state = "done"
  /\ batch' = [batch EXCEPT
       !.phase   = "done",
       !.status  = 200,
       !.results = [i \in 1..Len(batch.normalized) |->
                      ResultOf(batch.cache, batch.normalized[i])]]
  /\ UNCHANGED <<sheet, last, prev, calls, pc, run, ops, tabs, cache, history,
                 svc, world>>

\* The request bodies: up to MaxKeys elements, with duplicates, padding,
\* blank and null elements.
BodyElements == {<<"1">>, <<" ", "1">>, <<"2">>, <<"3">>, <<" ">>, Null}
Bodies == UNION {[1..n -> BodyElements] : n \in 0..MaxKeys}

\* The settings of BATCH_LOOKUP_CONCURRENCY.
EnvValues == {Unset, Empty, <<"0">>, <<"1">>, <<"2">>, <<"-", "1">>, <<"a">>}

InitBatch ==
  /\ sheet \in {SheetOf(StdHeader, <<>>)}
  /\ tabs = [t \in {SheetName} |-> 0]
  /\ history = <<>>
  /\ svc = ReadyService
  /\ world = EmptyMap
  /\ batch \in {Received(certNumbers, env) : certNumbers \in Bodies, env \in EnvValues}
  /\ last = NoCall
  /\ prev = NoCall
  /\ calls = 0
  /\ pc = [p \in Callers |-> "idle"]
  /\ run = [p \in Callers |-> NoCall]
  /\ ops = [p \in Callers |-> <<>>]
  /\ cache = EmptyMap

NextBatch ==
  \/ /\ batch.phase = "received"
     /\ StartBatch(batch.certNumbers, batch.env)
  \/ \E w \in 1..MaxKeys, outcome \in LookupOutcomes : LookupSettles(w, outcome)
  \/ Respond

SpecBatch == InitBatch /\ [][NextBatch]_vars

\* ---------------------------------------------- column letters of a range
\* The index of YZ, from where the names run through ZZ into three letters.
LateIndex == 675

\* The column indices converted: the first ones and those from YZ on.
ColumnIndices ==
  (0..MaxColumnIndex) \cup {LateIndex + i : i \in 0..MaxColumnIndex}

\* Two column indices resolved for a range, before the letters are computed.
Resolved(idxCardName, idxCert) ==
  [op |-> "resolved", idxCardName |-> idxCardName, idxCert |-> idxCert]

\* The scan range of addCardData: its start and end letters are those of
\* the lesser and the greater of the two indices.
ScanLetters ==
  /\ last.op = "resolved"
  /\ \E scanStartIdx \in {IF last.idxCardName <= last.idxCert
                            THEN last.idxCardName ELSE last.idxCert} :
     \E scanEndIdx \in {IF last.idxCardName >= last.idxCert
                          THEN last.idxCardName ELSE last.idxCert} :
       last' = [op |-> "scanLetters",
                idxCardName |-> last.idxCardName, idxCert |-> last.idxCert,
                scanStartIdx |-> scanStartIdx, scanEndIdx |-> scanEndIdx,
                scanStartLetter |-> ColumnIndexToLetter(scanStartIdx),
                scanEndLetter |-> ColumnIndexToLetter(scanEndIdx)]
  /\ UNCHANGED <<sheet, prev, calls, pc, run, ops, tabs, cache, history, svc,
                 world, batch>>

InitLetters ==
  /\ sheet \in {SheetOf(StdHeader, <<>>)}
  /\ tabs = [t \in {SheetName} |-> 0]
  /\ history = <<>>
  /\ svc = ReadyService
  /\ world = EmptyMap
  /\ batch = NoBatch
  /\ last \in {Resolved(a, b) : a \in ColumnIndices, b \in ColumnIndices}
  /\ prev = NoCall
  /\ calls = 0
  /\ pc = [p \in Callers |-> "idle"]
  /\ run = [p \in Callers |-> NoCall]
  /\ ops = [p \in Callers |-> <<>>]
  /\ cache = EmptyMap

NextLetters == ScanLetters

SpecLetters == InitLetters /\ [][NextLetters]_vars

\* ============================================================ properties
\* Vocabulary of the properties, read off the last call and the grid it
\* found (last.before).
Called == last.op = "add"

\* The record's key, trimmed.
RecKey(call) == Trim(call.rec.CertNumber)

\* Key and identity cell of row r of a grid, trimmed, in the columns the
\* call resolved.
KeyCell(call, grid, r)  == Trim(RowAt(grid, r)[call.plan.idxCert + 1])
NameCell(call, grid, r) == Trim(RowAt(grid, r)[call.plan.idxCardName + 1])

\* The rows the call scanned.
ScannedRows(call) ==
  call.plan.firstDataRow .. (call.plan.firstDataRow + call.plan.scanned - 1)

\* Scanned rows holding the record's (non-empty) key.
MatchRows(call) ==
  {r \in ScannedRows(call) :
     RecKey(call) # Empty /\ KeyCell(call, call.before, r) = RecKey(call)}

\* Scanned rows whose key and identity cells are both empty.
FreeRows(call) ==
  {r \in ScannedRows(call) :
     KeyCell(call, call.before, r) = Empty /\ NameCell(call, call.before, r) = Empty}

\* Scanned rows occupied by another record.
OccupiedRows(call) ==
  {r \in ScannedRows(call) :
     \/ KeyCell(call, call.before, r) # Empty /\ KeyCell(call, call.before, r) # RecKey(call)
     \/ KeyCell(call, call.before, r) = Empty /\ NameCell(call, call.before, r) # Empty}

\* The five owned column indices (zero-based) and their span (1-based).
OwnedIdx(call) ==
  {call.plan.idxCardName, call.plan.idxCardNumber, call.plan.idxCompany,
   call.plan.idxGrade, call.plan.idxCert}
SpanCols(call) == (MinOf(OwnedIdx(call)) + 1) .. (MaxOf(OwnedIdx(call)) + 1)

\* C2: the topmost scanned row whose trimmed key cell equals the record's
\* trimmed non-empty key is the target, in UPDATE mode; UPDATE mode is
\* chosen only for such a row.
C2_FirstMatchWins ==
  Called =>
    /\ MatchRows(last) # {} =>
         /\ last.plan.targetRow = MinOf(MatchRows(last))
         /\ last.plan.mode = "UPDATE"
    /\ last.plan.mode = "UPDATE" => last.plan.targetRow \in MatchRows(last)

\* The key occurs in two scanned rows and the upper one, which is not the
\* first data row, was updated.
C2_Witness ==
  /\ Called
  /\ Cardinality(MatchRows(last)) >= 2
  /\ last.plan.targetRow = MinOf(MatchRows(last))
  /\ last.plan.targetRow > last.plan.firstDataRow

\* C3: a key match anywhere in the scanned range wins over every free row
\* that precedes it: the target is then a row holding the key, in UPDATE
\* mode, and never the free row.
C3_MatchBeatsEarlierFreeRow ==
  Called =>
    \A e \in FreeRows(last) :
      (\E m \in MatchRows(last) : m > e) =>
        /\ last.plan.targetRow # e
        /\ last.plan.targetRow \in MatchRows(last)
        /\ last.plan.mode = "UPDATE"

\* Rows [7/X, free, 8/Y]-like: a free row lies above the updated row.
C3_Witness ==
  /\ Called
  /\ last.plan.mode = "UPDATE"
  /\ \E e \in FreeRows(last) : e < last.plan.targetRow
  /\ KeyCell(last, sheet, last.plan.targetRow) = RecKey(last)

\* C4: when no scanned row holds the record's key and some scanned row is
\* free, the target is the topmost free row, in INSERT mode.
C4_FirstFreeRowOnNoMatch ==
  (Called /\ MatchRows(last) = {} /\ FreeRows(last) # {}) =>
      /\ last.plan.targetRow = MinOf(FreeRows(last))
      /\ last.plan.mode = "INSERT"

\* No match, two free rows below an occupied first data row: the upper free
\* row was taken.
C4_Witness ==
  /\ Called
  /\ MatchRows(last) = {}
  /\ Cardinality(FreeRows(last)) >= 2
  /\ last.plan.firstDataRow \in OccupiedRows(last)
  /\ last.plan.targetRow = MinOf(FreeRows(last))
  /\ RecKey(last) # Empty

\* C5: with neither a match nor a free row in the scan, the target is
\* first data row + number of scanned rows, the row right after the last
\* scanned row (the first data row when nothing was scanned); no row from
\* there on has a value in the scanned columns.
C5_AppendAfterScannedRows ==
  (Called /\ MatchRows(last) = {} /\ FreeRows(last) = {}) =>
      /\ last.plan.targetRow = last.plan.firstDataRow + last.plan.scanned
      /\ last.plan.mode = "INSERT"
      /\ \A r \in last.plan.targetRow .. Len(last.before) :
           \A c \in (Min2(last.plan.idxCardName, last.plan.idxCert) + 1) ..
                    (Max2(last.plan.idxCardName, last.plan.idxCert) + 1) :
             last.before[r][c] = Empty

\* Two or more scanned rows, all occupied: the record was appended below.
C5_Witness ==
  /\ Called
  /\ last.plan.scanned >= 2
  /\ MatchRows(last) = {} /\ FreeRows(last) = {}
  /\ last.plan.targetRow = last.plan.firstDataRow + last.plan.scanned
  /\ KeyCell(last, sheet, last.plan.targetRow) = RecKey(last)

\* C6: the target is never a scanned row occupied by another record (key
\* cell non-empty and different from the record's key, or key cell empty
\* and identity cell non-empty; cells compared after trimming).
C6_NeverTargetsOccupiedRow ==
  Called => last.plan.targetRow \notin OccupiedRows(last)

\* A row with another key and a row with an identity but no key were both
\* passed over above the target.
C6_Witness ==
  /\ Called
  /\ \E r \in OccupiedRows(last) :
       r < last.plan.targetRow /\ KeyCell(last, last.before, r) # Empty
  /\ \E r \in OccupiedRows(last) :
       r < last.plan.targetRow /\ KeyCell(last, last.before, r) = Empty

\* C7: a record whose key is empty or blank never selects UPDATE mode; its
\* target is a free scanned row or the append position.
C7_EmptyKeyNeverUpdates ==
  (Called /\ RecKey(last) = Empty) =>
    /\ last.plan.mode = "INSERT"
    /\ MatchRows(last) = {}
    /\ \/ last.plan.targetRow \in FreeRows(last)
       \/ last.plan.targetRow = last.plan.firstDataRow + last.plan.scanned

\* A blank-key record met a row with an empty key cell and an identity, and
\* a row with a blank key cell; it was inserted, not matched.
C7_Witness ==
  /\ Called
  /\ last.rec.CertNumber = Blank1
  /\ \E r \in OccupiedRows(last) : KeyCell(last, last.before, r) = Empty
  /\ \E r \in ScannedRows(last) :
       RowAt(last.before, r)[last.plan.idxCert + 1] = Blank1
  /\ last.plan.mode = "INSERT"

\* Rows of a grid with a cell whose trimmed text is the key.
RowsHolding(grid, key) ==
  {r \in 1..Len(grid) : \E c \in 1..NumCols : Trim(grid[r][c]) = key}

\* C1: idempotence.  Two calls in sequence with the same record (non-empty
\* key; the key held by at most one row before the first call): the second
\* call targets the row the first call wrote, in UPDATE mode, both calls send
\* the same request, and exactly one row holds the key afterwards.
C1_Idempotent ==
  ( /\ Called /\ prev.op = "add"
    /\ last.rec = prev.rec
    /\ RecKey(last) # Empty
    /\ Cardinality(RowsHolding(prev.before, RecKey(last))) <= 1 ) =>
    /\ last.plan.targetRow = prev.plan.targetRow
    /\ last.plan.mode = "UPDATE"
    /\ last.plan.request = prev.plan.request
    /\ Cardinality(RowsHolding(sheet, RecKey(last))) = 1

\* C8: the written range is the span from the least to the greatest of the
\* five owned column indices on the target row, the payload has
\* (max - min + 1) cells, the cells of the span hold the payload afterwards
\* and no cell outside the span, on any row, is changed.
C8_WriteRangeIsOwnedSpan ==
  Called =>
    /\ last.plan.request.row = last.plan.targetRow
    /\ LetterToColumn(last.plan.request.startLetter, 0) = MinOf(OwnedIdx(last)) + 1
    /\ LetterToColumn(last.plan.request.endLetter, 0) = MaxOf(OwnedIdx(last)) + 1
    /\ Len(last.plan.request.values) = MaxOf(OwnedIdx(last)) - MinOf(OwnedIdx(last)) + 1
    /\ \A c \in SpanCols(last) :
         sheet[last.plan.targetRow][c] =
           last.plan.request.values[c - MinOf(OwnedIdx(last))]
    /\ \A r \in 1..Len(sheet) : \A c \in 1..NumCols :
         (r # last.plan.targetRow \/ c \notin SpanCols(last)) =>
           sheet[r][c] = RowAt(last.before, r)[c]

\* The span starts right of column A and ends left of the last column, and
\* the target row keeps a value on each side of it.
C8_Witness ==
  /\ Called
  /\ MinOf(OwnedIdx(last)) > 0
  /\ MaxOf(OwnedIdx(last)) + 1 < NumCols
  /\ sheet[last.plan.targetRow][1] = Filler
  /\ sheet[last.plan.targetRow][NumCols] = Filler
  /\ last.before[last.plan.targetRow][MinOf(OwnedIdx(last)) + 1] # Empty

C10_OtherRowsUntouched ==
  Called =>
    /\ Len(sheet) >= Len(last.before)
    /\ \A r \in 1..Len(sheet) :
         r # last.plan.targetRow => sheet[r] = RowAt(last.before, r)

\* The target row changed, with a filled data row above it and another,
\* different one below it.
C10_Witness ==
  /\ Called
  /\ sheet[last.plan.targetRow] # RowAt(last.before, last.plan.targetRow)
  /\ \E a \in last.plan.firstDataRow .. (last.plan.targetRow - 1) :
       \E b \in (last.plan.targetRow + 1) .. Len(sheet) :
         /\ sheet[a] # BlankRow /\ sheet[b] # BlankRow /\ sheet[a] # sheet[b]

\* ------------------------------------------- properties of getHeaderMap
\* A getHeaderMap call whose read of the window succeeded.
HeaderCalled == last.op = "headerMap" /\ last.readOk

\* The rows of a grid inside the window A1:ZZ10.
WindowRows(grid) == 1 .. Min2(HeaderWindow, Len(grid))

\* Every header name of every family.
AllSynonyms == UNION {CandidateNames(Canonicals[k]) : k \in 1..Len(Canonicals)}

\* Number of cells of a row that are, trimmed and lower-cased, a synonym.
SynCount(row) == Cardinality({c \in 1..Len(row) : Norm(row[c]) \in AllSynonyms})

\* The row names every one of the seven families.
FullFamilies(row) ==
  \A k \in 1..Len(Canonicals) :
    \E c \in 1..Len(row) : Norm(row[c]) \in CandidateNames(Canonicals[k])

\* Row r of the grid has the highest count of the window and is the
\* earliest row with that count.
EarliestBest(grid, r) ==
  \A q \in WindowRows(grid) :
    /\ SynCount(grid[q]) <= SynCount(grid[r])
    /\ q < r => SynCount(grid[q]) < SynCount(grid[r])

\* The result selects row r and maps every family to a column of that row
\* whose text is a synonym of the family.
SelectedWithFullMap(res, grid, r) ==
  /\ ~res.isNull
  /\ res.headerRow = r
  /\ DOMAIN res.indexByCanonical = {Canonicals[k] : k \in 1..Len(Canonicals)}
  /\ \A k \in 1..Len(Canonicals) :
       /\ (res.indexByCanonical[Canonicals[k]] + 1) \in 1..NumCols
       /\ Norm(grid[r][res.indexByCanonical[Canonicals[k]] + 1])
            \in CandidateNames(Canonicals[k])

\* C14: the header row is the row of the window with the highest count of
\* synonym cells, the earliest one among equals; a window with a synonym
\* cell always yields a header row.
C14_HighestCountEarliestWins ==
  HeaderCalled =>
    /\ (\E r \in WindowRows(last.before) : SynCount(last.before[r]) > 0)
         => ~last.result.isNull
    /\ ~last.result.isNull =>
         /\ last.result.headerRow \in WindowRows(last.before)
         /\ EarliestBest(last.before, last.result.headerRow)

\* Two rows of the window tie on a positive count and the upper one, which
\* is not row 1, is the header row.
C14_Witness ==
  /\ HeaderCalled
  /\ ~last.result.isNull
  /\ last.result.headerRow > 1
  /\ SynCount(last.before[last.result.headerRow]) > 0
  /\ \E r \in WindowRows(last.before) :
       /\ r > last.result.headerRow
       /\ SynCount(last.before[r]) = SynCount(last.before[last.result.headerRow])

\* C15: getHeaderMap returns null whenever no cell of any row of the window
\* matches a synonym.
C15_NullWhenNoSynonym ==
  (HeaderCalled /\ \A r \in WindowRows(last.before) : SynCount(last.before[r]) = 0)
    => last.result.isNull

\* C16: when no row of the window matches a synonym, inference returns null
\* and addCardData builds the legacy 7-column row [identity, cardNumber,
\* condition, authFlag, company, grade, key].
C16_LegacyRowWhenNoSynonym ==
  (Called /\ \A r \in WindowRows(last.before) : SynCount(last.before[r]) = 0) =>
    /\ last.plan.headerMap.isNull
    /\ last.plan.valuesRow =
         << FieldToValue(last.rec).cardName, FieldToValue(last.rec).cardNumber,
            FieldToValue(last.rec).condition, FieldToValue(last.rec).gradedFlag,
            FieldToValue(last.rec).company, FieldToValue(last.rec).grade,
            FieldToValue(last.rec).certNumber >>

\* C17 as stated: every row of the window naming all seven families is
\* selected as header row, with every field mapped to a column whose text
\* is a synonym of that field.
C17_FullRowAlwaysSelected ==
  HeaderCalled =>
    \A r \in WindowRows(last.before) :
      FullFamilies(last.before[r]) =>
        SelectedWithFullMap(last.result, last.before, r)

\* C17 amended: a row of the window naming all seven families is selected,
\* with every field mapped to a column whose text is a synonym of that
\* field, when no earlier row of the window has as many synonym cells and
\* no later row has more.
C17_FullRowSelectedWhenEarliestBest ==
  HeaderCalled =>
    \A r \in WindowRows(last.before) :
      (FullFamilies(last.before[r]) /\ EarliestBest(last.before, r)) =>
        SelectedWithFullMap(last.result, last.before, r)

\* A row naming all seven families lies below a partial header and is the
\* header row.
C17_Witness ==
  /\ HeaderCalled
  /\ ~last.result.isNull
  /\ last.result.headerRow > 1
  /\ FullFamilies(last.before[last.result.headerRow])
  /\ SynCount(last.before[last.result.headerRow - 1]) > 0
  /\ SelectedWithFullMap(last.result, last.before, last.result.headerRow)

\* C18: each field is mapped to the leftmost column of the header row whose
\* text is one of its synonyms, and a field with no such column is absent
\* from the map.
C18_LeftmostColumnPerField ==
  (HeaderCalled /\ ~last.result.isNull) =>
    \A k \in 1..Len(Canonicals) :
      LET cols == {c \in 1..NumCols :
                     Norm(last.before[last.result.headerRow][c])
                       \in CandidateNames(Canonicals[k])}
      IN  IF cols = {}
            THEN Canonicals[k] \notin DOMAIN last.result.indexByCanonical
            ELSE /\ Canonicals[k] \in DOMAIN last.result.indexByCanonical
                 /\ last.result.indexByCanonical[Canonicals[k]] = MinOf(cols) - 1

\* The header row names the identity family in several columns, the
\* leftmost of which is mapped, and leaves another family out.
C18_Witness ==
  /\ HeaderCalled
  /\ ~last.result.isNull
  /\ Cardinality({c \in 1..NumCols :
        Norm(last.before[last.result.headerRow][c]) \in CandidateNames("cardName")}) >= 2
  /\ last.result.indexByCanonical["cardName"] + 1 =
       MinOf({c \in 1..NumCols :
          Norm(last.before[last.result.headerRow][c]) \in CandidateNames("cardName")})
  /\ "grade" \notin DOMAIN last.result.indexByCanonical

\* ------------------------------------- properties of the step-wise calls
\* Caller p's addCardData call has returned or thrown.
Finished(p) == pc[p] = "done" /\ run[p].op = "add"

Succeeded(p) == Finished(p) /\ run[p].outcome = "success"

\* The requests that read or change cells or their formatting.
IsCellOp(o) == o.kind \in {"headerRead", "scanRead", "update", "formatBatch"}

Kinds(sent) == [i \in 1..Len(sent) |-> sent[i].kind]

\* Positions of the requests of a kind, and of those among them that failed.
Sent(p, kind) == {i \in 1..Len(ops[p]) : ops[p][i].kind = kind}

FailedRequests(p, kind) == {i \in Sent(p, kind) : ops[p][i].code # Ok}

\* Rows of a grid whose cell in 0-based column idx is, trimmed, the key.
KeyRows(grid, idx, key) ==
  {r \in 1..Len(grid) : Trim(grid[r][idx + 1]) = key}

\* C11: a call issues its cell operations in the order header window read,
\* scan read, one values.update on the resolved target row, at most one
\* formatting batch call; an update is never sent before both reads have
\* answered and never twice.
C11_CellOperationOrder ==
  \A p \in Callers :
    /\ \A i \in Sent(p, "update") :
         /\ \E j \in Sent(p, "headerRead"), k \in Sent(p, "scanRead") :
              j < k /\ k < i
         /\ Sent(p, "update") = {i}
    /\ Succeeded(p) =>
         /\ Kinds(SelectSeq(ops[p], IsCellOp))
              \in { <<"headerRead", "scanRead", "update">>,
                    <<"headerRead", "scanRead", "update", "formatBatch">> }
         /\ \A i \in Sent(p, "update") :
              ops[p][i].row = run[p].plan.targetRow /\ ops[p][i].code = Ok

\* A call returned success after both reads, the update and the formatting
\* batch call.
C11_Witness ==
  /\ Succeeded(1)
  /\ Kinds(SelectSeq(ops[1], IsCellOp))
       = <<"headerRead", "scanRead", "update", "formatBatch">>

\* C12: when the formatting copy fails, in the batch call or in resolving
\* the tab's numeric id, the call still returns success with the written
\* range and the row values, and the written cells stay as written.
C12_FormatFailureNeverFailsWrite ==
  \A p \in Callers :
    (Finished(p) /\ FailedRequests(p, "sheetIdGet") \cup FailedRequests(p, "formatBatch") # {}) =>
      /\ run[p].outcome = "success"
      /\ run[p].result.updatedRange =
           [startLetter |-> run[p].plan.request.startLetter,
            endLetter   |-> run[p].plan.request.endLetter,
            row         |-> run[p].plan.targetRow]
      /\ run[p].result.rowData = run[p].plan.writeRow
      /\ sheet = run[p].written
      /\ \A c \in 1..Len(run[p].plan.writeRow) :
           sheet[run[p].plan.targetRow][WriteStartIdx(run[p].plan.idxCardName,
               run[p].plan.idxCardNumber, run[p].plan.idxCompany,
               run[p].plan.idxGrade, run[p].plan.idxCert) + c]
             = run[p].plan.writeRow[c]

\* The metadata read of getSheetIdByName failed after a write that changed
\* the sheet, and the call returned success.
C12_Witness ==
  /\ Succeeded(1)
  /\ FailedRequests(1, "sheetIdGet") # {}
  /\ run[1].written # run[1].before
  /\ sheet = run[1].written

\* C13: when two calls with different keys have both returned success with
\* the same INSERT target row, the later write has replaced the earlier
\* one: the sheet the later write left holds the earlier record's key in
\* no row.
C13_RaceOverwritesEarlierInsert ==
  \A p, q \in Callers :
    (/\ p # q
     /\ Succeeded(p) /\ Succeeded(q)
     /\ run[p].plan.mode = "INSERT" /\ run[q].plan.mode = "INSERT"
     /\ run[p].plan.targetRow = run[q].plan.targetRow
     /\ run[p].plan.idxCert = run[q].plan.idxCert
     /\ run[p].plan.certToAdd # Empty /\ run[q].plan.certToAdd # Empty
     /\ run[p].plan.certToAdd # run[q].plan.certToAdd
     /\ run[p].plan.targetRow \in
          KeyRows(run[q].before, run[p].plan.idxCert, run[p].plan.certToAdd))
    => KeyRows(run[q].written, run[p].plan.idxCert, run[p].plan.certToAdd) = {}

\* Both calls scanned the same sheet before either wrote, chose the same
\* INSERT row, returned success, and only the later record is in the sheet.
C13_Witness ==
  /\ Succeeded(1) /\ Succeeded(2)
  /\ run[1].plan.mode = "INSERT" /\ run[2].plan.mode = "INSERT"
  /\ run[1].plan.targetRow = run[2].plan.targetRow
  /\ run[1].plan.certToAdd # run[2].plan.certToAdd
  /\ run[1].scanSheet = run[2].scanSheet
  /\ run[1].scanSheet = run[1].before
  /\ run[2].before = run[1].written
  /\ KeyRows(sheet, run[1].plan.idxCert, run[1].plan.certToAdd) = {}
  /\ KeyRows(sheet, run[2].plan.idxCert, run[2].plan.certToAdd)
       = {run[2].plan.targetRow}

\* C19: a failed read of the header window gives a null header map and is
\* not thrown; the call goes on with the legacy indices 0..4 and first data
\* row 2, and fails only if the scan read or the update fails.
C19_HeaderReadFailureFallsBack ==
  \A p \in Callers :
    FailedRequests(p, "headerRead") # {} =>
      /\ run[p].headerMap.isNull
      /\ pc[p] \in {"scan", "update", "done"}
      /\ run[p].outcome = "error" =>
           FailedRequests(p, "scanRead") \cup FailedRequests(p, "update") # {}
      /\ (Sent(p, "update") # {} /\ FailedRequests(p, "update") = {}) =>
           Succeeded(p)
      /\ run[p].plan # NoCall =>
           /\ run[p].plan.idxCardName = 0 /\ run[p].plan.idxCardNumber = 1
           /\ run[p].plan.idxCompany = 2 /\ run[p].plan.idxGrade = 3
           /\ run[p].plan.idxCert = 4
           /\ run[p].plan.firstDataRow = 2
           /\ run[p].plan.request.startLetter = ColumnIndexToLetter(0)
           /\ run[p].plan.request.endLetter = ColumnIndexToLetter(4)

\* The header read failed on a sheet whose header row puts the key in
\* another column than the legacy one, and the call returned success.
C19_Witness ==
  /\ Succeeded(1)
  /\ FailedRequests(1, "headerRead") # {}
  /\ ~GetHeaderMap(run[1].scanSheet).isNull
  /\ IndexOr(GetHeaderMap(run[1].scanSheet), "certNumber", 4) # 4
  /\ run[1].plan.idxCert = 4

\* ---------------------------------------- properties of saveScanHistory
\* Caller p's saveScanHistory call has returned success.
Saved(p) ==
  pc[p] = "done" /\ run[p].op = "history" /\ run[p].outcome = "success"

\* The rows of a grid up to the last one holding a value.
FilledRows(grid) == LastRowIn(grid, Len(grid), 1, NumCols)

\* The call added exactly one row, its entry, below what the log held.
AppendedOneRow(p) ==
  /\ FilledRows(history) =
       (IF run[p].tabExisted THEN FilledRows(run[p].before)
        ELSE Cardinality(Sent(p, "historyHeader") \ FailedRequests(p, "historyHeader")))
       + 1
  /\ history[FilledRows(history)] = PadRow(run[p].row)
  /\ Sent(p, "append") \ FailedRequests(p, "append") = {Len(ops[p])}
  /\ Cardinality(Sent(p, "append")) = 1

\* The header is written only by the call that created the tab, once.
HeaderOnlyOnCreation(p) ==
  /\ Cardinality(Sent(p, "historyHeader")) <= 1
  /\ \A i \in Sent(p, "historyHeader") :
       /\ ~run[p].tabExisted
       /\ \E j \in Sent(p, "addSheet") : j < i /\ ops[p][j].code = Ok

\* C20: a successful saveScanHistory appends exactly one row to the log
\* tab; a log tab that did not exist has been created and given the fixed
\* 7-column header in row 1; the header is written at most once, by the
\* call that creates the tab.
C20_OneRowAppendedUnderHeader ==
  \A p \in Callers :
    Saved(p) =>
      /\ HistorySheetName \in DOMAIN tabs
      /\ AppendedOneRow(p)
      /\ HeaderOnlyOnCreation(p)
      /\ ~run[p].tabExisted =>
           /\ history[1] = PadRow(HistoryHeaderRow)
           /\ FilledRows(history) = 2

\* Without the header guarantee: one row per successful call, and the
\* header written only on creation.
History_OneRowAndHeaderOnce ==
  \A p \in Callers :
    Saved(p) =>
      /\ HistorySheetName \in DOMAIN tabs
      /\ AppendedOneRow(p)
      /\ HeaderOnlyOnCreation(p)

\* -------------------------------- errors and formatting of addCardData
\* The kinds of the request log of caller p, in order.
SentKinds(p) == Kinds(ops[p])

\* The tab check failed: the metadata read failed or the tab is missing.
TabCheckFailed(p) ==
  /\ Sent(p, "metadata") # {}
  /\ FailedRequests(p, "metadata") # {} \/ svc.sheetName \notin DOMAIN tabs

\* C26: when the tab check, the scan read or the update fails, the call
\* ends with an error right there: the failed request is the last one sent,
\* no request was sent twice, no update follows a failed scan read, and the
\* sheet is as it was when the call started.
C26_FailureSurfacesWithoutRetry ==
  \A p \in Callers :
    (run[p].op = "add" /\
     (TabCheckFailed(p) \/ FailedRequests(p, "scanRead") # {}
        \/ FailedRequests(p, "update") # {})) =>
      /\ Finished(p)
      /\ run[p].outcome = "error"
      /\ SentKinds(p) \in { <<"metadata">>,
                            <<"metadata", "headerRead", "scanRead">>,
                            <<"metadata", "headerRead", "scanRead", "update">> }
      /\ TabCheckFailed(p) => Len(ops[p]) = 1
      /\ FailedRequests(p, "scanRead") # {} =>
           (Len(ops[p]) = 3 /\ Sent(p, "update") = {})
      /\ sheet = run[p].start

\* The scan read failed after the header window was read on a sheet with a
\* header, and the call threw.
C26_Witness ==
  /\ Finished(1)
  /\ run[1].outcome = "error"
  /\ FailedRequests(1, "scanRead") # {}
  /\ ~run[1].headerMap.isNull
  /\ sheet = run[1].start

\* The four error kinds of the interface, by the message addCardData throws.
KindOfMessage(message) ==
  IF message = "Invalid sheet range or data format" THEN "INVALID_FORMAT"
  ELSE IF message = "Sheet not found in the spreadsheet" THEN "NOT_FOUND"
  ELSE "UNKNOWN"

\* The kind an error code stands for.
KindOfCode(code) ==
  IF code = 404 THEN "NOT_FOUND"
  ELSE IF code = 403 THEN "ACCESS_DENIED"
  ELSE IF code = 400 THEN "INVALID_FORMAT"
  ELSE "UNKNOWN"

\* C27: a call that failed on a spreadsheet request reports the kind its
\* error code stands for: NOT_FOUND for 404, ACCESS_DENIED for 403,
\* INVALID_FORMAT for 400, UNKNOWN otherwise; a missing tab is NOT_FOUND.
C27_ErrorKindFollowsCode ==
  \A p \in Callers :
    (Finished(p) /\ run[p].outcome = "error") =>
      KindOfMessage(run[p].message) =
        (IF ops[p][Len(ops[p])].code = Ok
           THEN "NOT_FOUND"
           ELSE KindOfCode(ops[p][Len(ops[p])].code))

\* C30: a formatting batch request is sent only after a successful update,
\* at most once, with source row max(first data row, target row - 1)
\* strictly above the written row; a call without inferred schema or
\* writing the first data row sends none, and no metadata read for it.
C30_FormatCopyOnlyFromRowAbove ==
  \A p \in Callers :
    run[p].op = "add" =>
      /\ Sent(p, "formatBatch") \cup Sent(p, "sheetIdGet") # {} =>
           /\ \E i \in Sent(p, "update") :
                /\ ops[p][i].code = Ok
                /\ \A j \in Sent(p, "formatBatch") \cup Sent(p, "sheetIdGet") : i < j
           /\ Cardinality(Sent(p, "formatBatch")) <= 1
           /\ ~run[p].headerMap.isNull
           /\ run[p].fmt.templateRow =
                Max2(run[p].headerMap.headerRow + 1, run[p].plan.targetRow - 1)
           /\ run[p].fmt.templateRow < run[p].plan.targetRow
           /\ run[p].fmt.destRow = run[p].plan.targetRow
      /\ (Succeeded(p) /\ (run[p].headerMap.isNull
                           \/ run[p].plan.targetRow = run[p].plan.firstDataRow)) =>
           Sent(p, "formatBatch") \cup Sent(p, "sheetIdGet") = {}

\* A call wrote a row two or more below the header row and sent one
\* formatting batch request whose source is the row above the written row.
C30_Witness ==
  /\ Succeeded(1)
  /\ ~run[1].headerMap.isNull
  /\ run[1].plan.targetRow > run[1].plan.firstDataRow + 1
  /\ Sent(1, "formatBatch") # {}
  /\ run[1].fmt.templateRow = run[1].plan.targetRow - 1

\* C21: the history log is append-only: a row of the log tab that holds
\* values is never changed or removed by a later step of any call.
C21_HistoryAppendOnly ==
  [][\A r \in 1..Len(history) :
       history[r] # BlankRow =>
         (r <= Len(history') /\ history'[r] = history[r])]_vars

\* ---------------------------------------- properties of loadScanHistory
\* A loadScanHistory call whose reads all succeeded on an existing log tab.
Loaded ==
  /\ last.op = "load"
  /\ ~last.thrown
  /\ last.tabExists
  /\ \A i \in 1..Len(last.requests) : last.requests[i].code = Ok

\* Number of data rows of the log the call read (the header row excluded).
DataRows == FilledRows(last.log) - 1

\* C22: loadScanHistory(limit) returns min(limit, number of data rows)
\* entries, at most limit: the last data rows of the log, newest first.
C22_LastRowsNewestFirst ==
  Loaded =>
    /\ Len(last.result) <= last.limit
    /\ Len(last.result) = Min2(last.limit, DataRows)
    /\ \A i \in 1..Len(last.result) :
         last.result[i].timestamp = last.log[1 + DataRows + 1 - i][1]

\* The same for the limits above 0.
Load_PositiveLimit ==
  (Loaded /\ last.limit > 0) =>
    /\ Len(last.result) = Min2(last.limit, DataRows)
    /\ \A i \in 1..Len(last.result) :
         last.result[i].timestamp = last.log[1 + DataRows + 1 - i][1]

\* C23: loadScanHistory never throws; when a read fails, the probe of the
\* automatic initialize() included, it returns the empty sequence.
C23_LoadNeverThrows ==
  last.op = "load" =>
    /\ ~last.thrown
    /\ (\E i \in 1..Len(last.requests) : last.requests[i].code # Ok)
         => last.result = <<>>

\* The same once a client is in place when the call starts.
Load_NeverThrowsWithClient ==
  (last.op = "load" /\ last.hadClient) =>
    /\ ~last.thrown
    /\ (\E i \in 1..Len(last.requests) : last.requests[i].code # Ok)
         => last.result = <<>>

\* The payloads that were serialized into the logs.
PayloadCards == {Card(NameX, Twelve, <<Digits[d]>>) : d \in 1..10}

\* The payload cell is the serialization of a payload.
Serialized(cell) == \E c \in PayloadCards : Stringify(c) = cell

\* C31: every loaded entry comes from a data row of the log; for a row of
\* status 'success' with a non-empty payload cell the entry carries the
\* parsed payload, or, when the cell does not parse, the record rebuilt from
\* the identity, card-number and grade columns; every other row gives null.
C31_PayloadParsedOrRebuilt ==
  Loaded =>
    \A i \in 1..Len(last.result) :
      \E r \in 2..FilledRows(last.log) :
        /\ last.result[i].timestamp = last.log[r][1]
        /\ last.result[i].certNumber = last.log[r][2]
        /\ last.result[i].status = last.log[r][3]
        /\ IF last.log[r][3] = T_Success /\ last.log[r][7] # Empty
             THEN IF Serialized(last.log[r][7])
                    THEN /\ last.result[i].cardData \in PayloadCards
                         /\ Stringify(last.result[i].cardData) = last.log[r][7]
                    ELSE last.result[i].cardData =
                           Card(last.log[r][4], last.log[r][5], last.log[r][6])
             ELSE last.result[i].cardData.isNull

\* A load of three rows: a failed lookup that has a payload cell (null), a
\* success whose payload does not parse (rebuilt), a success that parses.
C31_Witness ==
  /\ Loaded
  /\ last.limit = 3
  /\ DataRows = 3
  /\ Len(last.result) = 3
  /\ last.log[4][3] = T_Error /\ last.log[4][7] # Empty
  /\ last.result[1].cardData.isNull
  /\ ~Serialized(last.log[3][7]) /\ last.log[3][7] # Empty
  /\ last.result[2].cardData = Card(NameX, Twelve, <<"2">>)
  /\ Serialized(last.log[2][7])
  /\ last.result[3].cardData = Card(NameX, Twelve, <<"1">>)

\* ------------------------------------- properties of batchGetCertificates
\* The batch request has been answered with its result list.
Answered == batch.phase = "done" /\ batch.status = 200

\* The workers were started (everything up to the await of the pool ran).
PoolStarted == batch.phase \in {"running", "done"} /\ batch.status # 400

\* Number of lookups started for a key.
LookupsOf(key) ==
  Cardinality({i \in 1..Len(batch.lookups) : batch.lookups[i] = key})

\* Lookups started and not settled yet.
InFlight ==
  Cardinality({w \in 1..Len(batch.workers) : batch.workers[w].state = "await"})

\* The keys of the request after normalization, as a set.
NormalizedKeys == {batch.normalized[i] : i \in 1..Len(batch.normalized)}

\* C24: no key is ever looked up twice; when the batch is answered every
\* distinct normalized key has been looked up exactly once, and the result
\* list has one entry per normalized input key, in the input's order, each
\* carrying the outcome stored for its key by that single lookup.
C24_DedupAndFanOut ==
  /\ PoolStarted => \A k \in NormalizedKeys : LookupsOf(k) <= 1
  /\ Answered =>
       /\ \A k \in NormalizedKeys : LookupsOf(k) = 1
       /\ Len(batch.results) = Len(batch.normalized)
       /\ \A i \in 1..Len(batch.results) :
            /\ batch.results[i].certNumber = batch.normalized[i]
            /\ batch.results[i].outcome \in LookupOutcomes
            /\ batch.normalized[i] \in DOMAIN batch.cache
            /\ batch.results[i].outcome = batch.cache[batch.normalized[i]]

\* The same, for the settings that start at least one worker.
Batch_DedupWhenLimitPositive ==
  (PoolStarted /\ ~batch.limit.nan /\ batch.limit.value >= 1) => C24_DedupAndFanOut

\* C32: whatever the concurrency setting, the batch is answered with the
\* work queue empty, and every result is the outcome of a lookup, never the
\* 'Unknown error' placeholder.
C32_EveryResultIsALookupOutcome ==
  Answered =>
    /\ batch.queue = <<>>
    /\ \A i \in 1..Len(batch.results) :
         /\ batch.results[i].outcome # UnknownError
         /\ batch.results[i].outcome \in LookupOutcomes
         /\ LookupsOf(batch.results[i].certNumber) >= 1

\* The same, for the settings that start at least one worker.
Batch_LookupOutcomesWhenLimitPositive ==
  (PoolStarted /\ ~batch.limit.nan /\ batch.limit.value >= 1)
    => C32_EveryResultIsALookupOutcome

\* C25 as stated: min(limit, number of unique keys) workers are started,
\* and no more lookups than that are in flight.
C25_PoolIsMinLimitUnique ==
  (PoolStarted /\ ~batch.limit.nan) =>
    /\ Len(batch.workers) = Min2(batch.limit.value, Len(batch.unique))
    /\ InFlight <= Min2(batch.limit.value, Len(batch.unique))

\* C25 (amended): for a limit of 1 or more, min(limit, max(1, number of
\* unique keys)) workers are started; for a limit that is 0, negative or not
\* a number, none. The pool never changes size, and the lookups in flight
\* never exceed the pool size nor the number of unique keys.
C25_PoolBounded ==
  PoolStarted =>
    /\ Len(batch.workers) =
         IF batch.limit.nan \/ batch.limit.value < 1 THEN 0
         ELSE Min2(batch.limit.value, Max2(1, Len(batch.unique)))
    /\ InFlight <= Len(batch.workers)
    /\ InFlight <= Len(batch.unique)
    /\ ~batch.limit.nan /\ batch.limit.value >= 1 => InFlight <= batch.limit.value

\* A pool smaller than the number of unique keys is fully busy with keys
\* still queued.
C25_Witness ==
  /\ batch.phase = "running"
  /\ batch.limit = Num(2)
  /\ Len(batch.unique) = 3
  /\ Len(batch.workers) = 2
  /\ InFlight = 2
  /\ batch.queue # <<>>

\* --------------------------------- properties of the service configuration
\* getSheetIdByName has just answered caller p from the cache.
ServedFromCache(p) ==
  run[p].op = "add" /\ pc[p] = "batch" /\ run[p].idFrom = "cache"

\* C28: after updateConfig has switched the spreadsheet, getSheetIdByName
\* never answers with a cache entry stored before the switch.
C28_CacheInvalidatedOnConfigChange ==
  \A p \in Callers : ServedFromCache(p) => svc.sheetName \notin svc.stale

\* Every id getSheetIdByName gives is the id the configured tab has in the
\* configured spreadsheet.
Config_IdIsOfConfiguredTab ==
  \A p \in Callers :
    (run[p].op = "add" /\ pc[p] = "batch") =>
      run[p].sheetId = tabs[svc.sheetName]

\* A cache entry that no change of spreadsheet has outlived is right.
Config_FreshEntriesAreRight ==
  \A p \in Callers :
    (ServedFromCache(p) /\ svc.sheetName \notin svc.stale) =>
      run[p].sheetId = tabs[svc.sheetName]

\* C37: a failed initialize(), for want of credentials or by a failed
\* probe, leaves getStatus().initialized false, and ensureInitialized calls
\* initialize() whenever no initialize() has succeeded under the current
\* configuration.
C37_FailedInitializeStaysUninitialized ==
  /\ (last.op \in {"initialize", "ensureInitialized"} /\ last.thrown)
       => ~last.status.initialized
  /\ (last.op = "ensureInitialized" /\ ~last.ready) => last.attempted

\* The same for the failure for want of credentials, and for
\* ensureInitialized on a service without a client.
Config_NoCredentialsStaysUninitialized ==
  /\ (last.op \in {"initialize", "ensureInitialized"} /\ last.thrown
        /\ last.requests = <<>>)
       => ~last.status.initialized
  /\ (last.op = "ensureInitialized" /\ ~last.hadClient) => last.attempted

\* The outside calls of getSpreadsheetInfo and getHeaderMap.
GuardedOps == {"info", "guardedHeaderMap"}

\* C29: a call of addCardData, getHeaderMap or getSpreadsheetInfo made
\* while no initialize() has succeeded under the current configuration
\* fails with the not-initialized error and sends no spreadsheet request;
\* after updateConfig the service reports initialized = false.
C29_NotInitializedFailsWithoutRequests ==
  /\ (last.op \in GuardedOps /\ ~last.ready) =>
       /\ last.thrown
       /\ last.message = NotInitialized
       /\ last.requests = <<>>
  /\ \A p \in Callers :
       (run[p].op = "add" /\ ~run[p].ready) =>
         /\ pc[p] = "done"
         /\ run[p].outcome = "error"
         /\ run[p].message = NotInitialized
         /\ ops[p] = <<>>
  /\ last.op = "updateConfig" => ~last.status.initialized

\* The same for calls made while the service holds no client; and
\* updateConfig always leaves it without one.
Config_NoClientFailsWithoutRequests ==
  /\ (last.op \in GuardedOps /\ ~last.hadClient) =>
       /\ last.thrown
       /\ last.message = NotInitialized
       /\ last.requests = <<>>
  /\ \A p \in Callers :
       (run[p].op = "add" /\ ~run[p].hadClient) =>
         /\ pc[p] = "done"
         /\ run[p].outcome = "error"
         /\ run[p].message = NotInitialized
         /\ ops[p] = <<>>
  /\ last.op = "updateConfig" => (~last.status.initialized /\ ~svc.sheets)

\* ------------------------------------------- invariants of the data rows
\* The schema a call would infer from a grid: the header row and the column
\* of each field (null when none is inferred).
SchemaOf(grid) ==
  LET hm == GetHeaderMap(grid)
  IN  [isNull |-> hm.isNull, headerRow |-> hm.headerRow,
       indexByCanonical |-> hm.indexByCanonical]

\* No non-empty key is held by two data rows of the grid, the data rows and
\* the key column being those of the schema inferred from the grid.
KeysUnique(grid) ==
  LET hm    == GetHeaderMap(grid)
      first == (IF hm.isNull THEN 1 ELSE hm.headerRow) + 1
      col   == IndexOr(hm, "certNumber", 4) + 1
  IN  \A r1, r2 \in first..Len(grid) :
        (r1 # r2 /\ Trim(grid[r1][col]) # Empty)
          => Trim(grid[r1][col]) # Trim(grid[r2][col])

OwnedFields == {"cardName", "cardNumber", "company", "grade", "certNumber"}

ResolvedIdx(call, field) ==
  IF      field = "cardName"   THEN call.plan.idxCardName
  ELSE IF field = "cardNumber" THEN call.plan.idxCardNumber
  ELSE IF field = "company"    THEN call.plan.idxCompany
  ELSE IF field = "grade"      THEN call.plan.idxGrade
  ELSE call.plan.idxCert

OwnedValue(call, field) ==
  IF      field = "cardName"   THEN FieldToValue(call.rec).cardName
  ELSE IF field = "cardNumber" THEN FieldToValue(call.rec).cardNumber
  ELSE IF field = "company"    THEN FieldToValue(call.rec).company
  ELSE IF field = "grade"      THEN FieldToValue(call.rec).grade
  ELSE FieldToValue(call.rec).certNumber

\* C34: after a write the target row holds, for each of the five owned
\* fields, the field's value in the column resolved for the field.
C34_OwnedValuesAtResolvedColumns ==
  Called =>
    \A f \in OwnedFields :
      sheet[last.plan.targetRow][ResolvedIdx(last, f) + 1] = OwnedValue(last, f)

\* The same when the five resolved columns are pairwise different.
Write_OwnedValuesWhenColumnsDiffer ==
  (Called /\ \A f, g \in OwnedFields :
               f # g => ResolvedIdx(last, f) # ResolvedIdx(last, g))
    => C34_OwnedValuesAtResolvedColumns

\* C35: the row a call writes is at or below its first data row, which is
\* the row after the inferred header row, or row 2 when no schema is
\* inferred; the header row and the rows above it are left as they were.
C35_WritesOnlyBelowHeader ==
  Called =>
    /\ last.plan.firstDataRow =
         IF last.plan.headerMap.isNull THEN 2
         ELSE last.plan.headerMap.headerRow + 1
    /\ last.plan.targetRow >= last.plan.firstDataRow
    /\ last.plan.request.row >= last.plan.firstDataRow
    /\ \A r \in 1..(last.plan.firstDataRow - 1) :
         RowAt(sheet, r) = RowAt(last.before, r)

\* A write to the first data row under a header that is not the first row.
C35_Witness ==
  /\ Called
  /\ ~last.plan.headerMap.isNull
  /\ last.plan.headerMap.headerRow >= 2
  /\ last.plan.targetRow = last.plan.firstDataRow
  /\ sheet # last.before

\* C36: header inference is stable under a write: the schema inferred from
\* the sheet after a call (header row and field columns) is the schema
\* inferred from the sheet the call found.
C36_HeaderInferenceStableUnderWrite ==
  Called => SchemaOf(sheet) = SchemaOf(last.before)

\* The same when no cell of the written row is a header synonym.
Header_StableWhenRowHasNoSynonym ==
  (Called /\ Score(sheet[last.plan.targetRow]) = 0)
    => SchemaOf(sheet) = SchemaOf(last.before)


\* ---------------------------------------------------------------------
\* The configured tab when it is absent from the spreadsheet
\* ---------------------------------------------------------------------

\* The requests of a call that read or write cells.
CellRequests(reqs) ==
  {i \in 1..Len(reqs) : reqs[i].kind \in {"headerRead", "scanRead", "update", "formatBatch"}}

\* A step in which caller p's tab check meets an absent configured tab.
TabCheckOnAbsentTab(p) ==
  /\ pc[p] = "ensure"
  /\ pc'[p] # "ensure"
  /\ svc.sheetName \notin DOMAIN tabs

\* A step of addCardData or of ensureActiveSheet, the operations that
\* leave the spreadsheet configuration to updateConfig.
TabCheckStep ==
  \/ pc' # pc
  \/ /\ last' # last
     /\ last'.op = "ensureActiveSheet"

\* What a step does to the configured tab when the tab is absent.
AbsentTabStep ==
  /\ \A p \in DOMAIN pc :
       TabCheckOnAbsentTab(p) =>
         /\ pc'[p] = "done"
         /\ run'[p].outcome = "error"
         /\ CellRequests(ops'[p]) = {}
         /\ sheet' = sheet
         /\ svc'.sheetName = svc.sheetName
  /\ (TabCheckStep /\ svc'.sheetName # svc.sheetName) =>
         /\ last' # last
         /\ last'.op = "ensureActiveSheet"
         /\ ~last'.strict
         /\ svc.sheetName \notin DOMAIN tabs
         /\ svc'.sheetName = FirstTab(tabs)
  /\ (/\ last' # last
      /\ last'.op = "ensureActiveSheet"
      /\ ~last'.strict
      /\ ~last'.thrown
      /\ svc.sheetName \notin DOMAIN tabs) =>
         svc'.sheetName = FirstTab(tabs)

\* C38: when the configured tab is absent from the spreadsheet, addCardData
\* fails at its tab check without a cell read or written and with the
\* configured tab name unchanged; the configured tab name is replaced, by
\* the spreadsheet's first tab, only in a non-strict ensureActiveSheet call
\* that finds the configured tab absent.
C38_StrictFailsNonStrictFallsBack == [][AbsentTabStep]_vars

\* C38 witness: an addCardData call has failed at its tab check, having sent
\* the metadata request only, and the absent tab is still configured.
C38_Witness ==
  \E p \in DOMAIN pc :
    /\ pc[p] = "done"
    /\ run[p].outcome = "error"
    /\ Len(ops[p]) = 1
    /\ ops[p][1].kind = "metadata"
    /\ ops[p][1].code = Ok
    /\ svc.sheetName \notin DOMAIN tabs

\* A non-strict call has replaced the absent tab by the first tab.
Tab_NonStrictFellBack ==
  /\ last.op = "ensureActiveSheet"
  /\ ~last.strict
  /\ ~last.thrown
  /\ svc.sheetName = FirstTab(tabs)
  /\ svc.sheetName # SheetName


\* ---------------------------------------- properties of columnIndexToLetter
\* The place of a letter in the alphabet, 1..26.
LetterRank(ch) == CHOOSE i \in 1..26 : UpperChars[i] = ch

\* Dictionary order between two names of the same length.
RECURSIVE NameBefore(_, _)
NameBefore(s, t) ==
  /\ s # <<>>
  /\ \/ LetterRank(Head(s)) < LetterRank(Head(t))
     \/ /\ Head(s) = Head(t)
        /\ NameBefore(Tail(s), Tail(t))

\* The bijective base-26 value of a name: A..Z are the digits 1..26.
RECURSIVE BijectiveValue(_)
BijectiveValue(name) ==
  IF name = <<>> THEN 0
  ELSE 26 * BijectiveValue(SubSeq(name, 1, Len(name) - 1))
         + LetterRank(name[Len(name)])

LettersDone == last.op = "scanLetters"

\* C39: the letters of a column index are its bijective base-26 name (A for
\* 0, Z for 25, AA for 26, AB for 27); different indices have different
\* names; of two names of equal length the one of the lesser index comes
\* first; and the start column of a range is never right of its end column.
C39_LettersAreBijectiveBase26 ==
  LettersDone =>
    /\ \A ch \in {last.scanStartLetter[i] : i \in 1..Len(last.scanStartLetter)} :
         \E i \in 1..26 : UpperChars[i] = ch
    /\ last.scanStartLetter # <<>>
    /\ BijectiveValue(last.scanStartLetter) = last.scanStartIdx + 1
    /\ BijectiveValue(last.scanEndLetter) = last.scanEndIdx + 1
    /\ (last.scanStartIdx = 0 => last.scanStartLetter = <<"A">>)
    /\ (last.scanStartIdx = 25 => last.scanStartLetter = <<"Z">>)
    /\ (last.scanStartIdx = 26 => last.scanStartLetter = <<"A", "A">>)
    /\ (last.scanStartIdx = 27 => last.scanStartLetter = <<"A", "B">>)
    /\ (last.scanStartIdx # last.scanEndIdx =>
          last.scanStartLetter # last.scanEndLetter)
    /\ (/\ last.scanStartIdx < last.scanEndIdx
        /\ Len(last.scanStartLetter) = Len(last.scanEndLetter)) =>
          NameBefore(last.scanStartLetter, last.scanEndLetter)
    /\ Len(last.scanStartLetter) <= Len(last.scanEndLetter)
    /\ LetterToColumn(last.scanStartLetter, 0) <= LetterToColumn(last.scanEndLetter, 0)

\* C39 witness: a range from AB to a three-letter column.
C39_Witness ==
  /\ LettersDone
  /\ last.scanStartIdx = 27
  /\ last.scanStartLetter = <<"A", "B">>
  /\ Len(last.scanEndLetter) = 3


\* ------------------------------------------ properties of getSheetIdByName
\* Caller p's getSheetIdByName sends its metadata request in this step.
SheetIdRequested(p) ==
  /\ pc[p] = "sheetId"
  /\ pc'[p] # "sheetId"

\* Caller p's getSheetIdByName returns in this step without a request.
SheetIdFromCache(p) ==
  /\ pc[p] = "update"
  /\ run'[p].idFrom = "cache"

\* What a lookup does once the id of the configured tab has been stored.
LookupAfterStore ==
  \A p \in DOMAIN pc :
    /\ (SheetIdRequested(p) => svc.sheetName \notin DOMAIN cache)
    /\ (SheetIdFromCache(p) => run'[p].sheetId = cache[svc.sheetName])

\* C40: once a lookup has stored the id of a tab, whatever the id, 0
\* included, no later lookup of that tab sends a metadata request, and a
\* lookup served from the cache returns the stored id.
C40_SheetIdFetchedAtMostOnce == [][LookupAfterStore]_vars

\* The same for the stored ids other than 0.
SheetId_NonZeroFetchedAtMostOnce ==
  [][\A p \in DOMAIN pc :
       /\ (SheetIdRequested(p) =>
             (svc.sheetName \in DOMAIN cache => cache[svc.sheetName] = 0))
       /\ (SheetIdFromCache(p) => run'[p].sheetId = cache[svc.sheetName])]_vars

\* A second call has been served the id 7 from the cache.
SheetId_ServedFromCache ==
  \E p \in DOMAIN pc :
    /\ calls = 2
    /\ pc[p] = "done"
    /\ run[p].op = "add"
    /\ run[p].idFrom = "cache"
    /\ run[p].sheetId = 7

====
